---------------------------- MODULE Spec2Model ----------------------------
(***************************************************************************)
(* Relay and ground-station communication layer of swarm_over_cellular.   *)
(*                                                                         *)
(* SpecRelay : the four relay programs of the repository, one per run      *)
(*             (raspberry_pi/drone_relay.py, raspberry_pi/drone_relay_rtp, *)
(*             pi/communication_bridge.py, raspberry_pi/simple_relay.py).  *)
(* SpecComm  : base_station/connection/drone_comm.py (DroneComm) with the  *)
(*             GUI thread that owns it, its two workers and the decoder.   *)
(*                                                                         *)
(* A datagram payload is a byte string.  It is modelled as a record        *)
(* [body, len]: `body' names the content, `len' is the number of bytes;    *)
(* two payloads are byte-identical iff the records are equal, and a prefix *)
(* of a payload keeps the body and has a smaller len.                      *)
(***************************************************************************)
EXTENDS Integers, Sequences, FiniteSets, TLC

(***************************************************************************)
(* Bounds of the model (not program constants).                            *)
(***************************************************************************)
\* datagrams the environment delivers to the receive sockets in one run
MaxDatagrams == 2
\* socket / process faults the environment injects in one run
MaxFaults == 3
\* calls of stop() (the signal handler and the finally clause of main)
MaxStops == 2

(***************************************************************************)
(* raspberry_pi/relay_config.py                                            *)
(***************************************************************************)
BASE_STATION_IP == "10.0.0.3"
BASE_STATION_COMMAND_PORT == 8889
BASE_STATION_TELEMETRY_PORT == 8888
DRONE_IP == "192.168.10.1"
DRONE_COMMAND_PORT == 8889
DRONE_TELEMETRY_PORT == 8888
BUFFER_SIZE == 4096
ALLOWED_BASE_STATIONS == {"10.0.0.3", "10.0.0.5"}

(***************************************************************************)
(* pi/bridge_config.py and the names pi/communication_bridge.py gives them *)
(***************************************************************************)
DRONE_LOCAL_IP == "192.168.1.100"
CONTROL_STATION_PUBLIC_IP == "10.0.0.3"
BRIDGE_VIDEO_PORT == 9890
MAX_PACKET_SIZE == 65536
ALLOWED_CONTROL_IPS == {"10.0.0.3", "192.168.1.10"}
\* communication_bridge.py, line 36: the port the drone listens on
bridge_DRONE_COMMAND_PORT == 8889
\* bridge_config.py, line 32, imported at line 31 of communication_bridge.py
CONTROL_TELEMETRY_PORT == 8888
\* bridge_config.py, line 33, imported at line 32 of communication_bridge.py
CONTROL_VIDEO_PORT == 8890

Min(a, b) == IF a <= b THEN a ELSE b

\* the value Python calls None, for a socket, a process or an address
None == "None"
\* None in a field that otherwise holds a datetime; a datetime is the
\* positive number of the event it stamps
NoTime == 0

(***************************************************************************)
(* The network: who can send what to the relay.                            *)
(***************************************************************************)
\* source addresses: the two allow-listed stations, one outsider, the drone
SourceAddrs == {"10.0.0.3", "10.0.0.5", "10.0.0.66"}
\* the largest payload of a UDP datagram over IPv4: the 16-bit total length
\* less the IP and the UDP header
UDP_MAX_PAYLOAD == 65535 - 20 - 8
\* payloads that can arrive at a socket read with recvfrom(bufsize): the
\* empty datagram, a command token, and a datagram one byte longer than the
\* buffer (or the largest datagram there is, when the buffer is larger)
WirePayloads(bufsize) ==
  { [body |-> "", len |-> 0],
    [body |-> "takeoff", len |-> 7],
    [body |-> "blob", len |-> Min(bufsize + 1, UDP_MAX_PAYLOAD)] }

\* a recvfrom that hands over one byte less than the buffer holds
recvfrom_one_short(payload, bufsize) ==
  [body |-> payload.body, len |-> Min(payload.len, bufsize - 1)]

\* socket.recvfrom(bufsize): the first bufsize bytes of the datagram; the
\* rest of a longer datagram is discarded
recvfrom(payload, bufsize) ==
  [body |-> payload.body, len |-> Min(payload.len, bufsize)]

VARIABLES
  variant,      \* which relay program runs
  enabled,      \* the services whose ENABLE_ flag is set
  relay,        \* the DroneRelay object
  pc,           \* position of every thread
  loc,          \* locals of every thread: data, and the counter value read for +=
  rx,           \* per channel: the datagrams recvfrom has returned (how many,
                \* how many of them from an allow-listed address, and the one
                \* of the current loop iteration as it was on the wire)
  tx,           \* per channel: the datagrams sendto has put on the wire (how
                \* many, and the one of the current loop iteration with the
                \* number of the received datagram it forwards)
  faults,       \* faults injected so far
  heartbeat_data, \* the last heartbeat datagram sent
  writers       \* history: the <<field, thread>> pairs such that the thread has
                \* stored the field of the statistics

VARIABLES
  comm,         \* the DroneComm object
  cpc,          \* position of the caller of DroneComm and of its two workers
  call,         \* the call of a DroneComm method in progress or last returned
  wire,         \* datagrams the command socket has sent: how many, and the last
  signals,      \* connection_status_changed: how many emitted, and the last
  decoder,      \* the FFmpeg process of the session and its stdout pipe
  video,        \* locals of receive_video_ffmpeg and the frames it published
  telemetry,    \* telemetry datagrams received and telemetry_received emitted
  cfaults       \* faults injected into the ground station so far

VARIABLES
  simulator,    \* the HeadlessDroneSimulatorWithVideo object and its video thread
  legacy        \* the legacy video datagram last delivered to the ground
                \* station, and what its decoding gave

relayVars == <<variant, enabled, relay, pc, loc, rx, tx, faults, heartbeat_data, writers>>
commVars == <<comm, cpc, call, wire, signals, decoder, video, telemetry, cfaults>>
codecVars == <<simulator, legacy>>
vars == <<relayVars, commVars, codecVars>>

Workers == {"command", "telemetry", "video", "heartbeat", "statistics"}
Threads == Workers \cup {"main"}
SocketNames == {"command_rx", "command_tx", "telemetry_rx", "telemetry_tx", "heartbeat"}
Channels == {"command", "telemetry", "video"}

\* locals before the first receive
NoLoc == [data |-> [body |-> "", len |-> 0], tmp |-> 0]

(***************************************************************************)
(* DroneRelay (raspberry_pi/drone_relay.py)                                *)
(***************************************************************************)
DroneRelay_init ==
  [ running |-> FALSE,
    statistics |-> [ commands_forwarded |-> 0,
                     telemetry_forwarded |-> 0,
                     video_bytes_forwarded |-> 0,
                     start_time |-> NoTime,
                     last_command_time |-> NoTime,
                     last_telemetry_time |-> NoTime,
                     errors |-> 0 ],
    sockets |-> [n \in SocketNames |-> None],
    video_process |-> None,
    video_calls |-> <<>> ]

\* the environment may inject one more fault
MayFault == faults < MaxFaults
Fault == faults' = faults + 1

\* the environment may deliver one more datagram
MayDeliver == rx["command"].n + rx["telemetry"].n + rx["video"].n < MaxDatagrams

\* the allow-list the configuration of the running program defines
AllowList ==
  IF variant = "CommunicationBridge" THEN ALLOWED_CONTROL_IPS ELSE ALLOWED_BASE_STATIONS

\* the histories after one more receive / one more send
Received(ch, src, p) ==
  [rx EXCEPT ![ch] = [n |-> @.n + 1,
                      allowed |-> @.allowed + (IF src \in AllowList THEN 1 ELSE 0),
                      src |-> src, payload |-> p]]
Sent(ch, ip, port, data) ==
  [tx EXCEPT ![ch] = [n |-> @.n + 1, ip |-> ip, port |-> port, data |-> data,
                      of |-> rx[ch].n, last |-> rx[ch].n]]
NoRxTx == [src |-> None, payload |-> [body |-> "", len |-> 0],
           ip |-> None, port |-> 0, data |-> [body |-> "", len |-> 0], of |-> 0]
\* the loop iteration is over: its datagrams are history, only the counts stay
Forget(h, ch) == [h EXCEPT ![ch] = [k \in DOMAIN @ |-> IF k \in {"n", "allowed", "last"} THEN @[k] ELSE NoRxTx[k]]]
NoRx == [n |-> 0, allowed |-> 0, src |-> None, payload |-> [body |-> "", len |-> 0]]
NoTx == [n |-> 0, ip |-> None, port |-> 0, data |-> [body |-> "", len |-> 0], of |-> 0,
         last |-> 0]

\* a shutdown that kills the process without asking it to end first
kill_at_once(outcome) ==
  CASE outcome = "exits" -> [calls |-> <<"terminate", "wait">>, state |-> "terminated"]
    [] outcome = "expires" -> [calls |-> <<"kill">>, state |-> "killed"]
    [] outcome = "raises" -> [calls |-> <<"terminate">>, state |-> "alive"]

\* the shutdown of a child process (drone_relay.py, lines 372-379;
\* drone_comm.py, lines 273-279): terminate(), then wait(timeout); the
\* process exits in time, or the wait raises TimeoutExpired and kill() is
\* called, or terminate() raises another exception, which is logged.  The
\* calls made on the process, in order, and what becomes of it
terminate_wait_kill(outcome) ==
  CASE outcome = "exits" -> [calls |-> <<"terminate", "wait">>, state |-> "terminated"]
    [] outcome = "expires" -> [calls |-> <<"terminate", "wait", "TimeoutExpired", "kill">>,
                               state |-> "killed"]
    [] outcome = "raises" -> [calls |-> <<"terminate">>, state |-> "alive"]

\* DroneRelay.start, lines 116-143: the flag is set, then one thread per
\* enabled service (ENABLE_COMMAND_RELAY, ..., ENABLE_STATISTICS) is started.
\* The worker's own setup runs in its thread, so start() sees none of its
\* failures and logs success.
DroneRelay_start ==
  /\ variant = "DroneRelay"
  /\ pc["main"] = "init"
  /\ relay' = [relay EXCEPT !.running = TRUE, !.statistics.start_time = 1]
  /\ pc' = [w \in Threads |-> IF w = "main" THEN "started"
                              ELSE IF w \in enabled THEN "setup" ELSE "off"]
  /\ writers' = writers \cup {<<"start_time", "main">>}
  /\ UNCHANGED <<commVars, codecVars, heartbeat_data, variant, enabled, loc, rx, tx, faults>>

\* command_relay_worker, lines 153-164: create_socket binds the receive socket (a
\* failed bind is re-raised, line 114, and ends the thread with the
\* exception), then the send socket is opened
command_relay_worker_setup ==
  /\ variant = "DroneRelay"
  /\ pc["command"] = "setup"
  /\ \/ /\ relay' = [relay EXCEPT !.sockets.command_rx = "open", !.sockets.command_tx = "open"]
        /\ pc' = [pc EXCEPT !["command"] = "loop"]
        /\ UNCHANGED faults
     \/ /\ MayFault
        /\ Fault
        /\ pc' = [pc EXCEPT !["command"] = "crashed"]
        /\ UNCHANGED relay
  /\ UNCHANGED <<commVars, codecVars, writers, heartbeat_data, variant, enabled, loc, rx, tx>>

\* line 166: while self.running finds the flag cleared
command_relay_worker_exit ==
  /\ variant = "DroneRelay"
  /\ pc["command"] = "loop"
  /\ ~relay.running
  /\ pc' = [pc EXCEPT !["command"] = "done"]
  /\ UNCHANGED <<commVars, codecVars, writers, heartbeat_data, variant, enabled, relay, loc, rx, tx, faults>>

\* the receive step without the allow-list check of line 172
command_relay_worker_recv_no_allowlist ==
  /\ variant = "DroneRelay"
  /\ pc["command"] = "loop"
  /\ relay.running
  /\ relay.sockets.command_rx = "open"
  /\ MayDeliver
  /\ \E src \in SourceAddrs, p \in WirePayloads(BUFFER_SIZE) :
       /\ rx' = Received("command", src, p)
       /\ pc' = [pc EXCEPT !["command"] = "send"]
       /\ loc' = [loc EXCEPT !["command"].data = recvfrom(p, BUFFER_SIZE)]
  /\ UNCHANGED <<commVars, codecVars, writers, heartbeat_data, variant, enabled, relay, tx, faults>>

\* lines 166-174: the flag is set and recvfrom returns a datagram; one from an address outside ALLOWED_BASE_STATIONS is logged and dropped (continue)
command_relay_worker_recv ==
  /\ variant = "DroneRelay"
  /\ pc["command"] = "loop"
  /\ relay.running
  /\ relay.sockets.command_rx = "open"
  /\ MayDeliver
  /\ \E src \in SourceAddrs, p \in WirePayloads(BUFFER_SIZE) :
       /\ rx' = Received("command", src, p)
       /\ IF src \notin ALLOWED_BASE_STATIONS
            THEN /\ pc' = [pc EXCEPT !["command"] = "dropped"]
                 /\ UNCHANGED loc
            ELSE /\ pc' = [pc EXCEPT !["command"] = "send"]
                 /\ loc' = [loc EXCEPT !["command"].data = recvfrom(p, BUFFER_SIZE)]
  /\ UNCHANGED <<commVars, codecVars, writers, heartbeat_data, variant, enabled, relay, tx, faults>>

\* the drop counted as an error, as if line 174 were a raise into line 194
command_relay_worker_dropped_counted ==
  /\ variant = "DroneRelay"
  /\ pc["command"] = "dropped"
  /\ relay' = [relay EXCEPT !.statistics.errors = @ + 1]
  /\ pc' = [pc EXCEPT !["command"] = "loop"]
  /\ rx' = Forget(rx, "command")
  /\ writers' = writers \cup {<<"errors", "command">>}
  /\ UNCHANGED <<commVars, codecVars, heartbeat_data, variant, enabled, loc, tx, faults>>

\* line 174: continue, after the warning of line 173
command_relay_worker_dropped ==
  /\ variant = "DroneRelay"
  /\ pc["command"] = "dropped"
  /\ pc' = [pc EXCEPT !["command"] = "loop"]
  /\ rx' = Forget(rx, "command")
  /\ UNCHANGED <<commVars, codecVars, writers, heartbeat_data, variant, enabled, relay, loc, tx, faults>>

\* lines 189-190: recvfrom times out after SOCKET_TIMEOUT; continue
command_relay_worker_timeout ==
  /\ variant = "DroneRelay"
  /\ pc["command"] = "loop"
  /\ relay.running
  /\ UNCHANGED vars

\* line 169 raises something other than a timeout
command_relay_worker_recv_error ==
  /\ variant = "DroneRelay"
  /\ pc["command"] = "loop"
  /\ relay.running
  /\ MayFault
  /\ Fault
  /\ pc' = [pc EXCEPT !["command"] = "except"]
  /\ UNCHANGED <<commVars, codecVars, writers, heartbeat_data, variant, enabled, relay, loc, rx, tx>>

\* lines 181-184: sendto(data, (DRONE_IP, DRONE_COMMAND_PORT)); it
\* raises when stop() has closed the socket or the system refuses the send.
\* After a send, statistics['commands_forwarded'] is read for the +=
command_relay_worker_send ==
  /\ variant = "DroneRelay"
  /\ pc["command"] = "send"
  /\ \/ /\ relay.sockets.command_tx = "open"
        /\ tx' = Sent("command", DRONE_IP, DRONE_COMMAND_PORT, loc["command"].data)
        /\ loc' = [loc EXCEPT !["command"].tmp = relay.statistics.commands_forwarded]
        /\ pc' = [pc EXCEPT !["command"] = "count_store"]
        /\ UNCHANGED faults
     \/ /\ relay.sockets.command_tx = "closed"
        /\ pc' = [pc EXCEPT !["command"] = "except"]
        /\ UNCHANGED <<tx, loc, faults>>
     \/ /\ relay.sockets.command_tx = "open"
        /\ MayFault
        /\ Fault
        /\ pc' = [pc EXCEPT !["command"] = "except"]
        /\ UNCHANGED <<tx, loc>>
  /\ UNCHANGED <<commVars, codecVars, writers, heartbeat_data, variant, enabled, relay, rx>>

\* a loop that goes back to the send with the datagram it has just forwarded
command_relay_worker_count_store_resend ==
  /\ variant = "DroneRelay"
  /\ pc["command"] = "count_store"
  /\ relay' = [relay EXCEPT !.statistics.commands_forwarded = loc["command"].tmp + 1,
                            !.statistics.last_command_time = tx["command"].n]
  /\ pc' = [pc EXCEPT !["command"] = IF tx["command"].n < 2 THEN "send" ELSE "loop"]
  /\ writers' = writers \cup {<<"commands_forwarded", "command">>, <<"last_command_time", "command">>}
  /\ UNCHANGED <<commVars, codecVars, heartbeat_data, variant, enabled, faults, loc, rx, tx>>

\* lines 184-185: the incremented value is stored and last_command_time
\* is set to now (the stamp is the number of datagrams forwarded so far)
command_relay_worker_count_store ==
  /\ variant = "DroneRelay"
  /\ pc["command"] = "count_store"
  /\ relay' = [relay EXCEPT !.statistics.commands_forwarded = loc["command"].tmp + 1,
                            !.statistics.last_command_time = tx["command"].n]
  /\ pc' = [pc EXCEPT !["command"] = "loop"]
  /\ loc' = [loc EXCEPT !["command"] = NoLoc]
  /\ rx' = Forget(rx, "command")
  /\ tx' = Forget(tx, "command")
  /\ writers' = writers \cup {<<"commands_forwarded", "command">>, <<"last_command_time", "command">>}
  /\ UNCHANGED <<commVars, codecVars, heartbeat_data, variant, enabled, faults>>

\* a handler that lets the error end the thread
command_relay_worker_except_unhandled ==
  /\ variant = "DroneRelay"
  /\ pc["command"] = "except"
  /\ pc' = [pc EXCEPT !["command"] = "crashed"]
  /\ loc' = [loc EXCEPT !["command"] = NoLoc]
  /\ rx' = Forget(rx, "command")
  /\ tx' = Forget(tx, "command")
  /\ UNCHANGED <<commVars, codecVars, writers, heartbeat_data, variant, enabled, relay, faults>>

\* lines 191-194: except Exception: if self.running, the error is
\* logged and statistics['errors'] is read for the +=
command_relay_worker_except ==
  /\ variant = "DroneRelay"
  /\ pc["command"] = "except"
  /\ IF relay.running
       THEN /\ loc' = [loc EXCEPT !["command"].tmp = relay.statistics.errors]
            /\ pc' = [pc EXCEPT !["command"] = "errors_store"]
       ELSE /\ loc' = [loc EXCEPT !["command"] = NoLoc]
            /\ pc' = [pc EXCEPT !["command"] = "loop"]
  /\ rx' = Forget(rx, "command")
  /\ tx' = Forget(tx, "command")
  /\ UNCHANGED <<commVars, codecVars, writers, heartbeat_data, variant, enabled, relay, faults>>

\* line 194, the store of the incremented errors value
command_relay_worker_errors_store ==
  /\ variant = "DroneRelay"
  /\ pc["command"] = "errors_store"
  /\ relay' = [relay EXCEPT !.statistics.errors = loc["command"].tmp + 1]
  /\ pc' = [pc EXCEPT !["command"] = "loop"]
  /\ loc' = [loc EXCEPT !["command"] = NoLoc]
  /\ rx' = Forget(rx, "command")
  /\ tx' = Forget(tx, "command")
  /\ writers' = writers \cup {<<"errors", "command">>}
  /\ UNCHANGED <<commVars, codecVars, heartbeat_data, variant, enabled, faults>>

\* telemetry_relay_worker, lines 204-215: create_socket binds the receive socket (a
\* failed bind is re-raised, line 114, and ends the thread with the
\* exception), then the send socket is opened
telemetry_relay_worker_setup ==
  /\ variant = "DroneRelay"
  /\ pc["telemetry"] = "setup"
  /\ \/ /\ relay' = [relay EXCEPT !.sockets.telemetry_rx = "open", !.sockets.telemetry_tx = "open"]
        /\ pc' = [pc EXCEPT !["telemetry"] = "loop"]
        /\ UNCHANGED faults
     \/ /\ MayFault
        /\ Fault
        /\ pc' = [pc EXCEPT !["telemetry"] = "crashed"]
        /\ UNCHANGED relay
  /\ UNCHANGED <<commVars, codecVars, writers, heartbeat_data, variant, enabled, loc, rx, tx>>

\* line 217: while self.running finds the flag cleared
telemetry_relay_worker_exit ==
  /\ variant = "DroneRelay"
  /\ pc["telemetry"] = "loop"
  /\ ~relay.running
  /\ pc' = [pc EXCEPT !["telemetry"] = "done"]
  /\ UNCHANGED <<commVars, codecVars, writers, heartbeat_data, variant, enabled, relay, loc, rx, tx, faults>>

\* lines 217-220: the flag is set and recvfrom returns a datagram, from whatever address
telemetry_relay_worker_recv ==
  /\ variant = "DroneRelay"
  /\ pc["telemetry"] = "loop"
  /\ relay.running
  /\ relay.sockets.telemetry_rx = "open"
  /\ MayDeliver
  /\ \E p \in WirePayloads(BUFFER_SIZE) :
       /\ rx' = Received("telemetry", DRONE_IP, p)
       /\ loc' = [loc EXCEPT !["telemetry"].data = recvfrom(p, BUFFER_SIZE)]
  /\ pc' = [pc EXCEPT !["telemetry"] = "send"]
  /\ UNCHANGED <<commVars, codecVars, writers, heartbeat_data, variant, enabled, relay, tx, faults>>

\* lines 238-239: recvfrom times out after SOCKET_TIMEOUT; continue
telemetry_relay_worker_timeout ==
  /\ variant = "DroneRelay"
  /\ pc["telemetry"] = "loop"
  /\ relay.running
  /\ UNCHANGED vars

\* line 220 raises something other than a timeout
telemetry_relay_worker_recv_error ==
  /\ variant = "DroneRelay"
  /\ pc["telemetry"] = "loop"
  /\ relay.running
  /\ MayFault
  /\ Fault
  /\ pc' = [pc EXCEPT !["telemetry"] = "except"]
  /\ UNCHANGED <<commVars, codecVars, writers, heartbeat_data, variant, enabled, relay, loc, rx, tx>>

\* lines 227-233: sendto(data, (BASE_STATION_IP, BASE_STATION_TELEMETRY_PORT)); it
\* raises when stop() has closed the socket or the system refuses the send.
\* After a send, statistics['telemetry_forwarded'] is read for the +=
telemetry_relay_worker_send ==
  /\ variant = "DroneRelay"
  /\ pc["telemetry"] = "send"
  /\ \/ /\ relay.sockets.telemetry_tx = "open"
        /\ tx' = Sent("telemetry", BASE_STATION_IP, BASE_STATION_TELEMETRY_PORT, loc["telemetry"].data)
        /\ loc' = [loc EXCEPT !["telemetry"].tmp = relay.statistics.telemetry_forwarded]
        /\ pc' = [pc EXCEPT !["telemetry"] = "count_store"]
        /\ UNCHANGED faults
     \/ /\ relay.sockets.telemetry_tx = "closed"
        /\ pc' = [pc EXCEPT !["telemetry"] = "except"]
        /\ UNCHANGED <<tx, loc, faults>>
     \/ /\ relay.sockets.telemetry_tx = "open"
        /\ MayFault
        /\ Fault
        /\ pc' = [pc EXCEPT !["telemetry"] = "except"]
        /\ UNCHANGED <<tx, loc>>
  /\ UNCHANGED <<commVars, codecVars, writers, heartbeat_data, variant, enabled, relay, rx>>

\* lines 233-234: the incremented value is stored and last_telemetry_time
\* is set to now (the stamp is the number of datagrams forwarded so far)
telemetry_relay_worker_count_store ==
  /\ variant = "DroneRelay"
  /\ pc["telemetry"] = "count_store"
  /\ relay' = [relay EXCEPT !.statistics.telemetry_forwarded = loc["telemetry"].tmp + 1,
                            !.statistics.last_telemetry_time = tx["telemetry"].n]
  /\ pc' = [pc EXCEPT !["telemetry"] = "loop"]
  /\ loc' = [loc EXCEPT !["telemetry"] = NoLoc]
  /\ rx' = Forget(rx, "telemetry")
  /\ tx' = Forget(tx, "telemetry")
  /\ writers' = writers \cup {<<"telemetry_forwarded", "telemetry">>, <<"last_telemetry_time", "telemetry">>}
  /\ UNCHANGED <<commVars, codecVars, heartbeat_data, variant, enabled, faults>>

\* lines 240-243: except Exception: if self.running, the error is
\* logged and statistics['errors'] is read for the +=
telemetry_relay_worker_except ==
  /\ variant = "DroneRelay"
  /\ pc["telemetry"] = "except"
  /\ IF relay.running
       THEN /\ loc' = [loc EXCEPT !["telemetry"].tmp = relay.statistics.errors]
            /\ pc' = [pc EXCEPT !["telemetry"] = "errors_store"]
       ELSE /\ loc' = [loc EXCEPT !["telemetry"] = NoLoc]
            /\ pc' = [pc EXCEPT !["telemetry"] = "loop"]
  /\ rx' = Forget(rx, "telemetry")
  /\ tx' = Forget(tx, "telemetry")
  /\ UNCHANGED <<commVars, codecVars, writers, heartbeat_data, variant, enabled, relay, faults>>

\* line 243, the store of the incremented errors value
telemetry_relay_worker_errors_store ==
  /\ variant = "DroneRelay"
  /\ pc["telemetry"] = "errors_store"
  /\ relay' = [relay EXCEPT !.statistics.errors = loc["telemetry"].tmp + 1]
  /\ pc' = [pc EXCEPT !["telemetry"] = "loop"]
  /\ loc' = [loc EXCEPT !["telemetry"] = NoLoc]
  /\ rx' = Forget(rx, "telemetry")
  /\ tx' = Forget(tx, "telemetry")
  /\ writers' = writers \cup {<<"errors", "telemetry">>}
  /\ UNCHANGED <<commVars, codecVars, heartbeat_data, variant, enabled, faults>>

\* video_relay_worker, lines 253-275 and 294-296: Popen starts FFmpeg; when
\* it raises (no ffmpeg binary), the handler outside the loop reads errors
video_relay_worker_setup ==
  /\ variant = "DroneRelay"
  /\ pc["video"] = "setup"
  /\ \/ /\ relay' = [relay EXCEPT !.video_process = "alive"]
        /\ pc' = [pc EXCEPT !["video"] = "loop"]
        /\ UNCHANGED <<loc, faults>>
     \/ /\ MayFault
        /\ Fault
        /\ loc' = [loc EXCEPT !["video"].tmp = relay.statistics.errors]
        /\ pc' = [pc EXCEPT !["video"] = "errors_store"]
        /\ UNCHANGED relay
  /\ UNCHANGED <<commVars, codecVars, writers, heartbeat_data, variant, enabled, rx, tx>>

\* lines 278-292: while self.running: poll(); a live process is left alone
\* for another second, an exited one is reaped by communicate()
video_relay_worker_while ==
  /\ variant = "DroneRelay"
  /\ pc["video"] = "loop"
  /\ IF ~relay.running
       THEN pc' = [pc EXCEPT !["video"] = "done"]
       ELSE IF relay.video_process = "exited"
              THEN pc' = [pc EXCEPT !["video"] = "restart"]
              ELSE pc' = pc
  /\ UNCHANGED <<commVars, codecVars, writers, heartbeat_data, variant, enabled, relay, loc, rx, tx, faults>>

\* lines 284-290: if self.running (read again after communicate): sleep 2 s,
\* then Popen again; a raising Popen leaves the loop through line 294
video_relay_worker_restart ==
  /\ variant = "DroneRelay"
  /\ pc["video"] = "restart"
  /\ \/ /\ ~relay.running
        /\ pc' = [pc EXCEPT !["video"] = "loop"]
        /\ UNCHANGED <<relay, loc, faults>>
     \/ /\ relay.running
        /\ pc' = [pc EXCEPT !["video"] = "popen"]
        /\ UNCHANGED <<relay, loc, faults>>
  /\ UNCHANGED <<commVars, codecVars, writers, heartbeat_data, variant, enabled, rx, tx>>

\* line 288, after the 2 s sleep
video_relay_worker_popen ==
  /\ variant = "DroneRelay"
  /\ pc["video"] = "popen"
  /\ \/ /\ relay' = [relay EXCEPT !.video_process = "alive"]
        /\ pc' = [pc EXCEPT !["video"] = "loop"]
        /\ UNCHANGED <<loc, faults>>
     \/ /\ MayFault
        /\ Fault
        /\ loc' = [loc EXCEPT !["video"].tmp = relay.statistics.errors]
        /\ pc' = [pc EXCEPT !["video"] = "errors_store"]
        /\ UNCHANGED relay
  /\ UNCHANGED <<commVars, codecVars, writers, heartbeat_data, variant, enabled, rx, tx>>

\* line 296, second half; the worker function then returns
video_relay_worker_errors_store ==
  /\ variant = "DroneRelay"
  /\ pc["video"] = "errors_store"
  /\ relay' = [relay EXCEPT !.statistics.errors = loc["video"].tmp + 1]
  /\ pc' = [pc EXCEPT !["video"] = "done"]
  /\ loc' = [loc EXCEPT !["video"] = NoLoc]
  /\ writers' = writers \cup {<<"errors", "video">>}
  /\ UNCHANGED <<commVars, codecVars, heartbeat_data, variant, enabled, rx, tx, faults>>

\* the FFmpeg process of the relay ends by itself (no input, bad stream)
DroneRelay_ffmpeg_exits ==
  /\ variant = "DroneRelay"
  /\ relay.video_process = "alive"
  /\ MayFault
  /\ Fault
  /\ relay' = [relay EXCEPT !.video_process = "exited"]
  /\ UNCHANGED <<commVars, codecVars, writers, heartbeat_data, variant, enabled, pc, loc, rx, tx>>

\* make_json_safe(self.statistics), lines 53-64: datetimes become ISO strings,
\* everything else is kept; shown here for the counters
make_json_safe(statistics) ==
  [ commands_forwarded |-> statistics.commands_forwarded,
    telemetry_forwarded |-> statistics.telemetry_forwarded,
    video_bytes_forwarded |-> statistics.video_bytes_forwarded,
    errors |-> statistics.errors ]

\* heartbeat_worker, lines 306-309: a send socket, never bound
heartbeat_worker_setup ==
  /\ variant = "DroneRelay"
  /\ pc["heartbeat"] = "setup"
  /\ relay' = [relay EXCEPT !.sockets.heartbeat = "open"]
  /\ pc' = [pc EXCEPT !["heartbeat"] = "loop"]
  /\ UNCHANGED <<commVars, codecVars, writers, heartbeat_data, variant, enabled, loc, rx, tx, faults>>

\* line 311: while self.running
heartbeat_worker_while ==
  /\ variant = "DroneRelay"
  /\ pc["heartbeat"] = "loop"
  /\ pc' = [pc EXCEPT !["heartbeat"] = IF relay.running THEN "beat" ELSE "done"]
  /\ UNCHANGED <<commVars, codecVars, writers, heartbeat_data, variant, enabled, relay, loc, rx, tx, faults>>

\* lines 312-336: the heartbeat is built and sent, then the worker sleeps
\* KEEPALIVE_INTERVAL; a raising sendto skips the sleep (it is inside the
\* try) and the loop goes round at once
heartbeat_worker_beat ==
  /\ variant = "DroneRelay"
  /\ pc["heartbeat"] = "beat"
  /\ \/ /\ relay.sockets.heartbeat = "open"
        /\ heartbeat_data' = [ type |-> "heartbeat", relay_status |-> "active",
                               statistics |-> make_json_safe(relay.statistics),
                               ip |-> BASE_STATION_IP,
                               port |-> BASE_STATION_TELEMETRY_PORT ]
        /\ pc' = [pc EXCEPT !["heartbeat"] = "sleep"]
        /\ UNCHANGED faults
     \/ /\ relay.sockets.heartbeat = "closed"
        /\ pc' = [pc EXCEPT !["heartbeat"] = "loop"]
        /\ UNCHANGED <<heartbeat_data, faults>>
     \/ /\ relay.sockets.heartbeat = "open"
        /\ MayFault
        /\ Fault
        /\ pc' = [pc EXCEPT !["heartbeat"] = "loop"]
        /\ UNCHANGED heartbeat_data
  /\ UNCHANGED <<commVars, codecVars, writers, variant, enabled, relay, loc, rx, tx>>

\* line 329: time.sleep(KEEPALIVE_INTERVAL) returns
heartbeat_worker_sleep ==
  /\ variant = "DroneRelay"
  /\ pc["heartbeat"] = "sleep"
  /\ pc' = [pc EXCEPT !["heartbeat"] = "loop"]
  /\ UNCHANGED <<commVars, codecVars, writers, heartbeat_data, variant, enabled, relay, loc, rx, tx, faults>>

\* statistics_worker, lines 345-349: while self.running: sleep(30), then
\* log_statistics() if still running; the log line is not part of the state
statistics_worker ==
  /\ variant = "DroneRelay"
  /\ pc["statistics"] \in {"setup", "loop"}
  /\ pc' = [pc EXCEPT !["statistics"] = IF relay.running THEN "loop" ELSE "done"]
  /\ UNCHANGED <<commVars, codecVars, writers, heartbeat_data, variant, enabled, relay, loc, rx, tx, faults>>

\* DroneRelay.stop, lines 368-379: the flag is cleared; a video process is
\* sent terminate() and waited for 5 s; when the wait expires it is killed
DroneRelay_stop ==
  /\ variant = "DroneRelay"
  /\ pc["main"] \in {"started", "stopped"}
  /\ loc["main"].tmp < MaxStops
  /\ loc' = [loc EXCEPT !["main"].tmp = @ + 1]
  /\ \/ /\ relay.video_process = "alive"
        /\ \E outcome \in {"exits", "expires"} :
             LET r == terminate_wait_kill(outcome) IN
               relay' = [relay EXCEPT !.running = FALSE,
                                      !.video_process = IF r.state = "killed" THEN "killed"
                                                        ELSE "exited",
                                      !.video_calls = r.calls]
     \/ /\ relay.video_process \in {"exited", "killed"}
        /\ relay' = [relay EXCEPT !.running = FALSE,
                                  !.video_calls = terminate_wait_kill("exits").calls]
     \/ /\ relay.video_process = None
        /\ relay' = [relay EXCEPT !.running = FALSE]
  /\ pc' = [pc EXCEPT !["main"] = "stop_close"]
  /\ UNCHANGED <<commVars, codecVars, writers, heartbeat_data, variant, enabled, rx, tx, faults>>

\* lines 381-387: every socket in self.sockets is closed
DroneRelay_stop_close ==
  /\ variant = "DroneRelay"
  /\ pc["main"] = "stop_close"
  /\ relay' = [relay EXCEPT !.sockets =
                 [n \in SocketNames |-> IF relay.sockets[n] = None THEN None ELSE "closed"]]
  /\ pc' = [pc EXCEPT !["main"] = "stop_join"]
  /\ UNCHANGED <<commVars, codecVars, writers, heartbeat_data, variant, enabled, loc, rx, tx, faults>>

\* lines 389-396: each live thread is joined for at most 2 s, the final
\* statistics are logged
DroneRelay_stop_join ==
  /\ variant = "DroneRelay"
  /\ pc["main"] = "stop_join"
  /\ pc' = [pc EXCEPT !["main"] = "stopped"]
  /\ UNCHANGED <<commVars, codecVars, writers, heartbeat_data, variant, enabled, relay, loc, rx, tx, faults>>

DroneRelayNext ==
  \/ DroneRelay_start
  \/ command_relay_worker_setup
  \/ command_relay_worker_exit
  \/ command_relay_worker_recv
  \/ command_relay_worker_dropped
  \/ command_relay_worker_timeout
  \/ command_relay_worker_recv_error
  \/ command_relay_worker_send
  \/ command_relay_worker_count_store
  \/ command_relay_worker_except
  \/ command_relay_worker_errors_store
  \/ telemetry_relay_worker_setup
  \/ telemetry_relay_worker_exit
  \/ telemetry_relay_worker_recv
  \/ telemetry_relay_worker_timeout
  \/ telemetry_relay_worker_recv_error
  \/ telemetry_relay_worker_send
  \/ telemetry_relay_worker_count_store
  \/ telemetry_relay_worker_except
  \/ telemetry_relay_worker_errors_store
  \/ video_relay_worker_setup
  \/ video_relay_worker_while
  \/ video_relay_worker_restart
  \/ video_relay_worker_popen
  \/ video_relay_worker_errors_store
  \/ DroneRelay_ffmpeg_exits
  \/ heartbeat_worker_setup
  \/ heartbeat_worker_while
  \/ heartbeat_worker_beat
  \/ heartbeat_worker_sleep
  \/ statistics_worker
  \/ DroneRelay_stop
  \/ DroneRelay_stop_close
  \/ DroneRelay_stop_join

(***************************************************************************)
(* DroneRelayRTP (raspberry_pi/drone_relay_rtp.py)                         *)
(***************************************************************************)
DroneRelayRTP_init ==
  [ running |-> FALSE,
    statistics |-> [ commands_forwarded |-> 0,
                     telemetry_forwarded |-> 0,
                     video_bytes_forwarded |-> 0,
                     errors |-> 0,
                     start_time |-> 1 ],
    sockets |-> [n \in SocketNames |-> None],
    ffmpeg_process |-> None ]

\* DroneRelayRTP.start, lines 44-70: the flag is set, the command thread
\* and the FFmpeg video thread are started
DroneRelayRTP_start ==
  /\ variant = "DroneRelayRTP"
  /\ pc["main"] = "init"
  /\ relay' = [relay EXCEPT !.running = TRUE]
  /\ pc' = [w \in Threads |-> IF w = "main" THEN "started"
                              ELSE IF w \in {"command", "video"} THEN "setup" ELSE "off"]
  /\ UNCHANGED <<commVars, codecVars, writers, heartbeat_data, variant, enabled, loc, rx, tx, faults>>

\* command_worker, lines 76-86 and 105-106: both sockets are created and
\* entered in self.sockets; a failed bind is caught, logged, and the worker
\* returns
command_worker_setup ==
  /\ variant = "DroneRelayRTP"
  /\ pc["command"] = "setup"
  /\ \/ /\ relay' = [relay EXCEPT !.sockets.command_rx = "open", !.sockets.command_tx = "open"]
        /\ pc' = [pc EXCEPT !["command"] = "loop"]
        /\ UNCHANGED faults
     \/ /\ MayFault
        /\ Fault
        /\ pc' = [pc EXCEPT !["command"] = "done"]
        /\ UNCHANGED relay
  /\ UNCHANGED <<commVars, codecVars, writers, heartbeat_data, variant, enabled, loc, rx, tx>>

\* line 89: while self.running finds the flag cleared
command_worker_exit ==
  /\ variant = "DroneRelayRTP"
  /\ pc["command"] = "loop"
  /\ ~relay.running
  /\ pc' = [pc EXCEPT !["command"] = "done"]
  /\ UNCHANGED <<commVars, codecVars, writers, heartbeat_data, variant, enabled, relay, loc, rx, tx, faults>>

\* lines 89-91: recvfrom returns a datagram; addr is never looked at
command_worker_recv ==
  /\ variant = "DroneRelayRTP"
  /\ pc["command"] = "loop"
  /\ relay.running
  /\ relay.sockets.command_rx = "open"
  /\ MayDeliver
  /\ \E src \in SourceAddrs, p \in WirePayloads(BUFFER_SIZE) :
       /\ rx' = Received("command", src, p)
       /\ loc' = [loc EXCEPT !["command"].data = recvfrom(p, BUFFER_SIZE)]
  /\ pc' = [pc EXCEPT !["command"] = "send"]
  /\ UNCHANGED <<commVars, codecVars, writers, heartbeat_data, variant, enabled, relay, tx, faults>>

\* lines 98-99: recvfrom times out; continue
command_worker_timeout ==
  /\ variant = "DroneRelayRTP"
  /\ pc["command"] = "loop"
  /\ relay.running
  /\ UNCHANGED vars

\* lines 92-93: sendto(data, (DRONE_IP, DRONE_COMMAND_PORT)), then the read
\* of statistics['commands_forwarded'] for the +=
command_worker_send ==
  /\ variant = "DroneRelayRTP"
  /\ pc["command"] = "send"
  /\ \/ /\ relay.sockets.command_tx = "open"
        /\ tx' = Sent("command", DRONE_IP, DRONE_COMMAND_PORT, loc["command"].data)
        /\ loc' = [loc EXCEPT !["command"].tmp = relay.statistics.commands_forwarded]
        /\ pc' = [pc EXCEPT !["command"] = "count_store"]
        /\ UNCHANGED faults
     \/ /\ relay.sockets.command_tx = "closed"
        /\ pc' = [pc EXCEPT !["command"] = "except"]
        /\ UNCHANGED <<tx, loc, faults>>
     \/ /\ relay.sockets.command_tx = "open"
        /\ MayFault
        /\ Fault
        /\ pc' = [pc EXCEPT !["command"] = "except"]
        /\ UNCHANGED <<tx, loc>>
  /\ UNCHANGED <<commVars, codecVars, writers, heartbeat_data, variant, enabled, relay, rx>>

\* line 93, the store of the incremented value
command_worker_count_store ==
  /\ variant = "DroneRelayRTP"
  /\ pc["command"] = "count_store"
  /\ relay' = [relay EXCEPT !.statistics.commands_forwarded = loc["command"].tmp + 1]
  /\ pc' = [pc EXCEPT !["command"] = "loop"]
  /\ loc' = [loc EXCEPT !["command"] = NoLoc]
  /\ rx' = Forget(rx, "command")
  /\ tx' = Forget(tx, "command")
  /\ writers' = writers \cup {<<"commands_forwarded", "command">>}
  /\ UNCHANGED <<commVars, codecVars, heartbeat_data, variant, enabled, faults>>

\* lines 100-103: except Exception: if self.running, errors += 1 (the only
\* writer of errors in this program, so the read and the store are one step)
command_worker_except ==
  /\ variant = "DroneRelayRTP"
  /\ pc["command"] = "except"
  /\ relay' = IF relay.running
                THEN [relay EXCEPT !.statistics.errors = @ + 1]
                ELSE relay
  /\ pc' = [pc EXCEPT !["command"] = "loop"]
  /\ loc' = [loc EXCEPT !["command"] = NoLoc]
  /\ rx' = Forget(rx, "command")
  /\ tx' = Forget(tx, "command")
  /\ writers' = IF relay.running THEN writers \cup {<<"errors", "command">>} ELSE writers
  /\ UNCHANGED <<commVars, codecVars, heartbeat_data, variant, enabled, faults>>

\* video_worker, lines 155-175 and 198-199: Popen starts FFmpeg; when it
\* raises, the handler outside the loop logs and the worker returns
video_worker_setup ==
  /\ variant = "DroneRelayRTP"
  /\ pc["video"] = "setup"
  /\ \/ /\ relay' = [relay EXCEPT !.ffmpeg_process = "alive"]
        /\ pc' = [pc EXCEPT !["video"] = "loop"]
        /\ UNCHANGED faults
     \/ /\ MayFault
        /\ Fault
        /\ pc' = [pc EXCEPT !["video"] = "done"]
        /\ UNCHANGED relay
  /\ UNCHANGED <<commVars, codecVars, writers, heartbeat_data, variant, enabled, loc, rx, tx>>

\* lines 178-183 and 196: while self.running: poll(); a live process is left
\* alone for another second, an exited one is reaped by communicate()
video_worker_while ==
  /\ variant = "DroneRelayRTP"
  /\ pc["video"] = "loop"
  /\ IF ~relay.running
       THEN pc' = [pc EXCEPT !["video"] = "done"]
       ELSE IF relay.ffmpeg_process = "exited"
              THEN pc' = [pc EXCEPT !["video"] = "restart"]
              ELSE pc' = pc
  /\ UNCHANGED <<commVars, codecVars, writers, heartbeat_data, variant, enabled, relay, loc, rx, tx, faults>>

\* lines 185-187 and 194: if self.running (read again after communicate):
\* sleep 2 s; otherwise the break of line 194 at once
video_worker_restart ==
  /\ variant = "DroneRelayRTP"
  /\ pc["video"] = "restart"
  /\ pc' = [pc EXCEPT !["video"] = IF relay.running THEN "popen" ELSE "done"]
  /\ UNCHANGED <<commVars, codecVars, writers, heartbeat_data, variant, enabled, relay, loc, rx, tx, faults>>

\* lines 188-194: Popen again after the sleep, then break: the loop is left
\* and the worker returns, whether Popen returned or raised
video_worker_popen ==
  /\ variant = "DroneRelayRTP"
  /\ pc["video"] = "popen"
  /\ \/ /\ relay' = [relay EXCEPT !.ffmpeg_process = "alive"]
        /\ UNCHANGED faults
     \/ /\ MayFault
        /\ Fault
        /\ UNCHANGED relay
  /\ pc' = [pc EXCEPT !["video"] = "done"]
  /\ UNCHANGED <<commVars, codecVars, writers, heartbeat_data, variant, enabled, loc, rx, tx>>

\* the FFmpeg process of the relay ends by itself (no input, bad stream)
DroneRelayRTP_ffmpeg_exits ==
  /\ variant = "DroneRelayRTP"
  /\ relay.ffmpeg_process = "alive"
  /\ MayFault
  /\ Fault
  /\ relay' = [relay EXCEPT !.ffmpeg_process = "exited"]
  /\ UNCHANGED <<commVars, codecVars, writers, heartbeat_data, variant, enabled, pc, loc, rx, tx>>

\* DroneRelayRTP.stop, lines 206-217: the flag is cleared; a running FFmpeg
\* process is terminated, waited for and, if need be, killed
DroneRelayRTP_stop ==
  /\ variant = "DroneRelayRTP"
  /\ pc["main"] \in {"started", "stopped"}
  /\ loc["main"].tmp < MaxStops
  /\ loc' = [loc EXCEPT !["main"].tmp = @ + 1]
  /\ \E outcome \in {"exits", "expires", "raises"} :
       relay' = [relay EXCEPT !.running = FALSE,
                              !.ffmpeg_process =
                                 IF @ = "alive" THEN terminate_wait_kill(outcome).state ELSE @]
  /\ pc' = [pc EXCEPT !["main"] = "stop_close"]
  /\ UNCHANGED <<commVars, codecVars, writers, heartbeat_data, variant, enabled, rx, tx, faults>>

\* lines 220-226: every socket in self.sockets is closed
DroneRelayRTP_stop_close ==
  /\ variant = "DroneRelayRTP"
  /\ pc["main"] = "stop_close"
  /\ relay' = [relay EXCEPT !.sockets =
                 [n \in SocketNames |-> IF relay.sockets[n] = None THEN None ELSE "closed"]]
  /\ pc' = [pc EXCEPT !["main"] = "stopped"]
  /\ UNCHANGED <<commVars, codecVars, writers, heartbeat_data, variant, enabled, loc, rx, tx, faults>>

DroneRelayRTPNext ==
  \/ DroneRelayRTP_start
  \/ command_worker_setup
  \/ command_worker_exit
  \/ command_worker_recv
  \/ command_worker_timeout
  \/ command_worker_send
  \/ command_worker_count_store
  \/ command_worker_except
  \/ video_worker_setup
  \/ video_worker_while
  \/ video_worker_restart
  \/ video_worker_popen
  \/ DroneRelayRTP_ffmpeg_exits
  \/ DroneRelayRTP_stop
  \/ DroneRelayRTP_stop_close

(***************************************************************************)
(* CommunicationBridge (pi/communication_bridge.py)                        *)
(***************************************************************************)
\* the socket attributes, in the order create_sockets assigns them
BridgeSockets ==
  << "command_from_control", "command_to_drone",
     "telemetry_from_drone", "telemetry_to_control",
     "video_from_drone", "video_to_control",
     "rtp_from_drone", "rtp_to_control" >>
BridgeSocketNames == {BridgeSockets[i] : i \in DOMAIN BridgeSockets}

\* __init__, lines 72-104
CommunicationBridge_init ==
  [ running |-> FALSE,
    stats |-> [ commands_relayed |-> 0,
                telemetry_relayed |-> 0,
                video_packets_relayed |-> 0,
                rtp_packets_relayed |-> 0,
                start_time |-> NoTime,
                last_command_time |-> NoTime,
                last_telemetry_time |-> NoTime,
                last_video_time |-> NoTime ],
    sockets |-> [n \in BridgeSocketNames |-> None] ]

\* create_sockets, lines 132-183, when the first k assignments are reached:
\* each attribute is assigned as soon as socket() returns, before its
\* setsockopt and bind; the except clause closes nothing
create_sockets(k) ==
  [n \in BridgeSocketNames |->
     IF \E i \in 1..k : BridgeSockets[i] = n THEN "open" ELSE None]

\* start, lines 309-343: create_sockets; on False, start returns False and
\* main returns; otherwise the flag is set and the threads are started
CommunicationBridge_start ==
  /\ variant = "CommunicationBridge"
  /\ pc["main"] = "init"
  /\ \/ /\ relay' = [relay EXCEPT !.sockets = create_sockets(Len(BridgeSockets)),
                                  !.running = TRUE,
                                  !.stats.start_time = 1]
        /\ pc' = [w \in Threads |-> IF w = "main" THEN "started"
                                    ELSE IF w \in {"command", "telemetry", "video"} THEN "loop"
                                    ELSE "off"]
        /\ UNCHANGED faults
     \/ /\ MayFault
        /\ Fault
        /\ \E k \in 0..(Len(BridgeSockets) - 1) :
             relay' = [relay EXCEPT !.sockets = create_sockets(k)]
        /\ pc' = [pc EXCEPT !["main"] = "failed"]
  /\ writers' = writers \cup {<<"start_time", "main">>}
  /\ UNCHANGED <<commVars, codecVars, heartbeat_data, variant, enabled, loc, rx, tx>>

\* relay_commands, line 189: while self.running finds the flag cleared
relay_commands_exit ==
  /\ variant = "CommunicationBridge"
  /\ pc["command"] = "loop"
  /\ ~relay.running
  /\ pc' = [pc EXCEPT !["command"] = "done"]
  /\ UNCHANGED <<commVars, codecVars, writers, heartbeat_data, variant, enabled, relay, loc, rx, tx, faults>>

\* lines 189-194: recvfrom(MAX_PACKET_SIZE) returns a datagram; addr is only
\* logged; an empty datagram is not forwarded (if data)
relay_commands_recv ==
  /\ variant = "CommunicationBridge"
  /\ pc["command"] = "loop"
  /\ relay.running
  /\ relay.sockets.command_from_control = "open"
  /\ MayDeliver
  /\ \E src \in SourceAddrs, p \in WirePayloads(MAX_PACKET_SIZE) :
       IF recvfrom(p, MAX_PACKET_SIZE).len > 0
         THEN /\ rx' = Received("command", src, p)
              /\ loc' = [loc EXCEPT !["command"].data = recvfrom(p, MAX_PACKET_SIZE)]
              /\ pc' = [pc EXCEPT !["command"] = "send"]
         ELSE /\ rx' = Forget(Received("command", src, p), "command")
              /\ UNCHANGED <<loc, pc>>
  /\ UNCHANGED <<commVars, codecVars, writers, heartbeat_data, variant, enabled, relay, tx, faults>>

\* lines 205-206: recvfrom times out; continue
relay_commands_timeout ==
  /\ variant = "CommunicationBridge"
  /\ pc["command"] = "loop"
  /\ relay.running
  /\ UNCHANGED vars

\* lines 196-199 and 207-209: sendto(data, (self.drone_ip,
\* DRONE_COMMAND_PORT)), then the read of stats['commands_relayed']; an
\* exception is logged while running and the loop goes on
relay_commands_send ==
  /\ variant = "CommunicationBridge"
  /\ pc["command"] = "send"
  /\ \/ /\ relay.sockets.command_to_drone = "open"
        /\ tx' = Sent("command", DRONE_LOCAL_IP, bridge_DRONE_COMMAND_PORT, loc["command"].data)
        /\ loc' = [loc EXCEPT !["command"].tmp = relay.stats.commands_relayed]
        /\ pc' = [pc EXCEPT !["command"] = "count_store"]
        /\ UNCHANGED <<rx, faults>>
     \/ /\ relay.sockets.command_to_drone = "closed"
        /\ pc' = [pc EXCEPT !["command"] = "loop"]
        /\ loc' = [loc EXCEPT !["command"] = NoLoc]
        /\ rx' = Forget(rx, "command")
        /\ UNCHANGED <<tx, faults>>
     \/ /\ relay.sockets.command_to_drone = "open"
        /\ MayFault
        /\ Fault
        /\ pc' = [pc EXCEPT !["command"] = "loop"]
        /\ loc' = [loc EXCEPT !["command"] = NoLoc]
        /\ rx' = Forget(rx, "command")
        /\ UNCHANGED tx
  /\ UNCHANGED <<commVars, codecVars, writers, heartbeat_data, variant, enabled, relay>>

\* lines 199-200: the incremented value is stored, last_command_time is set
relay_commands_count_store ==
  /\ variant = "CommunicationBridge"
  /\ pc["command"] = "count_store"
  /\ relay' = [relay EXCEPT !.stats.commands_relayed = loc["command"].tmp + 1,
                            !.stats.last_command_time = tx["command"].n]
  /\ pc' = [pc EXCEPT !["command"] = "loop"]
  /\ loc' = [loc EXCEPT !["command"] = NoLoc]
  /\ rx' = Forget(rx, "command")
  /\ tx' = Forget(tx, "command")
  /\ writers' = writers \cup {<<"commands_relayed", "command">>, <<"last_command_time", "command">>}
  /\ UNCHANGED <<commVars, codecVars, heartbeat_data, variant, enabled, faults>>

\* relay_video, line 246: while self.running finds the flag cleared
relay_video_exit ==
  /\ variant = "CommunicationBridge"
  /\ pc["video"] = "loop"
  /\ ~relay.running
  /\ pc' = [pc EXCEPT !["video"] = "done"]
  /\ UNCHANGED <<commVars, codecVars, writers, heartbeat_data, variant, enabled, relay, loc, rx, tx, faults>>

\* lines 246-251: recvfrom(MAX_PACKET_SIZE) returns a video datagram
relay_video_recv ==
  /\ variant = "CommunicationBridge"
  /\ pc["video"] = "loop"
  /\ relay.running
  /\ relay.sockets.video_from_drone = "open"
  /\ MayDeliver
  /\ \E p \in WirePayloads(MAX_PACKET_SIZE) :
       IF recvfrom(p, MAX_PACKET_SIZE).len > 0
         THEN /\ rx' = Received("video", DRONE_LOCAL_IP, p)
              /\ loc' = [loc EXCEPT !["video"].data = recvfrom(p, MAX_PACKET_SIZE)]
              /\ pc' = [pc EXCEPT !["video"] = "send"]
         ELSE /\ rx' = Forget(Received("video", DRONE_LOCAL_IP, p), "video")
              /\ UNCHANGED <<loc, pc>>
  /\ UNCHANGED <<commVars, codecVars, writers, heartbeat_data, variant, enabled, relay, tx, faults>>

\* lines 261-262: recvfrom times out; continue
relay_video_timeout ==
  /\ variant = "CommunicationBridge"
  /\ pc["video"] = "loop"
  /\ relay.running
  /\ UNCHANGED vars

\* lines 253-256 and 263-265: sendto(data, (self.control_station_ip,
\* self.video_port)), then the read of stats['video_packets_relayed']
relay_video_send ==
  /\ variant = "CommunicationBridge"
  /\ pc["video"] = "send"
  /\ \/ /\ relay.sockets.video_to_control = "open"
        /\ tx' = Sent("video", CONTROL_STATION_PUBLIC_IP, BRIDGE_VIDEO_PORT, loc["video"].data)
        /\ loc' = [loc EXCEPT !["video"].tmp = relay.stats.video_packets_relayed]
        /\ pc' = [pc EXCEPT !["video"] = "count_store"]
        /\ UNCHANGED <<rx, faults>>
     \/ /\ relay.sockets.video_to_control = "closed"
        /\ pc' = [pc EXCEPT !["video"] = "loop"]
        /\ loc' = [loc EXCEPT !["video"] = NoLoc]
        /\ rx' = Forget(rx, "video")
        /\ UNCHANGED <<tx, faults>>
     \/ /\ relay.sockets.video_to_control = "open"
        /\ MayFault
        /\ Fault
        /\ pc' = [pc EXCEPT !["video"] = "loop"]
        /\ loc' = [loc EXCEPT !["video"] = NoLoc]
        /\ rx' = Forget(rx, "video")
        /\ UNCHANGED tx
  /\ UNCHANGED <<commVars, codecVars, writers, heartbeat_data, variant, enabled, relay>>

\* lines 256-257: the incremented value is stored, last_video_time is set
relay_video_count_store ==
  /\ variant = "CommunicationBridge"
  /\ pc["video"] = "count_store"
  /\ relay' = [relay EXCEPT !.stats.video_packets_relayed = loc["video"].tmp + 1,
                            !.stats.last_video_time = tx["video"].n]
  /\ pc' = [pc EXCEPT !["video"] = "loop"]
  /\ loc' = [loc EXCEPT !["video"] = NoLoc]
  /\ rx' = Forget(rx, "video")
  /\ tx' = Forget(tx, "video")
  /\ writers' = writers \cup {<<"video_packets_relayed", "video">>, <<"last_video_time", "video">>}
  /\ UNCHANGED <<commVars, codecVars, heartbeat_data, variant, enabled, faults>>

\* relay_telemetry, line 215: while self.running finds the flag cleared
relay_telemetry_exit ==
  /\ variant = "CommunicationBridge"
  /\ pc["telemetry"] = "loop"
  /\ ~relay.running
  /\ pc' = [pc EXCEPT !["telemetry"] = "done"]
  /\ UNCHANGED <<commVars, codecVars, writers, heartbeat_data, variant, enabled, relay, loc, rx, tx, faults>>

\* lines 215-220: recvfrom(MAX_PACKET_SIZE) returns a telemetry datagram
relay_telemetry_recv ==
  /\ variant = "CommunicationBridge"
  /\ pc["telemetry"] = "loop"
  /\ relay.running
  /\ relay.sockets.telemetry_from_drone = "open"
  /\ MayDeliver
  /\ \E p \in WirePayloads(MAX_PACKET_SIZE) :
       IF recvfrom(p, MAX_PACKET_SIZE).len > 0
         THEN /\ rx' = Received("telemetry", DRONE_LOCAL_IP, p)
              /\ loc' = [loc EXCEPT !["telemetry"].data = recvfrom(p, MAX_PACKET_SIZE)]
              /\ pc' = [pc EXCEPT !["telemetry"] = "send"]
         ELSE /\ rx' = Forget(Received("telemetry", DRONE_LOCAL_IP, p), "telemetry")
              /\ UNCHANGED <<loc, pc>>
  /\ UNCHANGED <<commVars, codecVars, writers, heartbeat_data, variant, enabled, relay, tx, faults>>

\* lines 236-237: recvfrom times out; continue
relay_telemetry_timeout ==
  /\ variant = "CommunicationBridge"
  /\ pc["telemetry"] = "loop"
  /\ relay.running
  /\ UNCHANGED vars

\* lines 222-225 and 238-240: sendto(data, (self.control_station_ip,
\* CONTROL_TELEMETRY_PORT)), then the read of stats['telemetry_relayed']
relay_telemetry_send ==
  /\ variant = "CommunicationBridge"
  /\ pc["telemetry"] = "send"
  /\ \/ /\ relay.sockets.telemetry_to_control = "open"
        /\ tx' = Sent("telemetry", CONTROL_STATION_PUBLIC_IP, CONTROL_TELEMETRY_PORT, loc["telemetry"].data)
        /\ loc' = [loc EXCEPT !["telemetry"].tmp = relay.stats.telemetry_relayed]
        /\ pc' = [pc EXCEPT !["telemetry"] = "count_store"]
        /\ UNCHANGED <<rx, faults>>
     \/ /\ relay.sockets.telemetry_to_control = "closed"
        /\ pc' = [pc EXCEPT !["telemetry"] = "loop"]
        /\ loc' = [loc EXCEPT !["telemetry"] = NoLoc]
        /\ rx' = Forget(rx, "telemetry")
        /\ UNCHANGED <<tx, faults>>
     \/ /\ relay.sockets.telemetry_to_control = "open"
        /\ MayFault
        /\ Fault
        /\ pc' = [pc EXCEPT !["telemetry"] = "loop"]
        /\ loc' = [loc EXCEPT !["telemetry"] = NoLoc]
        /\ rx' = Forget(rx, "telemetry")
        /\ UNCHANGED tx
  /\ UNCHANGED <<commVars, codecVars, writers, heartbeat_data, variant, enabled, relay>>

\* lines 225-226: the incremented value is stored, last_telemetry_time is set
relay_telemetry_count_store ==
  /\ variant = "CommunicationBridge"
  /\ pc["telemetry"] = "count_store"
  /\ relay' = [relay EXCEPT !.stats.telemetry_relayed = loc["telemetry"].tmp + 1,
                            !.stats.last_telemetry_time = tx["telemetry"].n]
  /\ pc' = [pc EXCEPT !["telemetry"] = "loop"]
  /\ loc' = [loc EXCEPT !["telemetry"] = NoLoc]
  /\ rx' = Forget(rx, "telemetry")
  /\ tx' = Forget(tx, "telemetry")
  /\ writers' = writers \cup {<<"telemetry_relayed", "telemetry">>, <<"last_telemetry_time", "telemetry">>}
  /\ UNCHANGED <<commVars, codecVars, heartbeat_data, variant, enabled, faults>>

\* stop, lines 355-358: the flag is cleared
CommunicationBridge_stop ==
  /\ variant = "CommunicationBridge"
  /\ pc["main"] \in {"started", "stopped"}
  /\ loc["main"].tmp < MaxStops
  /\ loc' = [loc EXCEPT !["main"].tmp = @ + 1]
  /\ relay' = [relay EXCEPT !.running = FALSE]
  /\ pc' = [pc EXCEPT !["main"] = "stop_join"]
  /\ UNCHANGED <<commVars, codecVars, writers, heartbeat_data, variant, enabled, rx, tx, faults>>

\* lines 360-363: each live thread is joined for at most 2 s
CommunicationBridge_stop_join ==
  /\ variant = "CommunicationBridge"
  /\ pc["main"] = "stop_join"
  /\ pc' = [pc EXCEPT !["main"] = "stop_close"]
  /\ UNCHANGED <<commVars, codecVars, writers, heartbeat_data, variant, enabled, relay, loc, rx, tx, faults>>

\* lines 365-378: every socket attribute that is not None is closed; the
\* attributes keep the closed socket objects
CommunicationBridge_stop_close ==
  /\ variant = "CommunicationBridge"
  /\ pc["main"] = "stop_close"
  /\ relay' = [relay EXCEPT !.sockets =
                 [n \in BridgeSocketNames |-> IF relay.sockets[n] = None THEN None ELSE "closed"]]
  /\ pc' = [pc EXCEPT !["main"] = "stopped"]
  /\ UNCHANGED <<commVars, codecVars, writers, heartbeat_data, variant, enabled, loc, rx, tx, faults>>

CommunicationBridgeNext ==
  \/ CommunicationBridge_start
  \/ relay_commands_exit
  \/ relay_commands_recv
  \/ relay_commands_timeout
  \/ relay_commands_send
  \/ relay_commands_count_store
  \/ relay_video_exit
  \/ relay_video_recv
  \/ relay_video_timeout
  \/ relay_video_send
  \/ relay_video_count_store
  \/ relay_telemetry_exit
  \/ relay_telemetry_recv
  \/ relay_telemetry_timeout
  \/ relay_telemetry_send
  \/ relay_telemetry_count_store
  \/ CommunicationBridge_stop
  \/ CommunicationBridge_stop_join
  \/ CommunicationBridge_stop_close

(***************************************************************************)
(* simple_relay (raspberry_pi/simple_relay.py): two daemon threads, no     *)
(* object, no flag, no statistics; the sockets are locals of the threads   *)
(***************************************************************************)
simple_relay_init ==
  [ sockets |-> [n \in SocketNames |-> None] ]

\* main, lines 49-61: both threads are started
simple_relay_main ==
  /\ variant = "simple_relay"
  /\ pc["main"] = "init"
  /\ pc' = [w \in Threads |-> IF w = "main" THEN "started"
                              ELSE IF w \in {"command", "telemetry"} THEN "setup" ELSE "off"]
  /\ UNCHANGED <<commVars, codecVars, writers, heartbeat_data, variant, enabled, relay, loc, rx, tx, faults>>

\* forward_commands, lines 14-18: cmd_in is bound, cmd_out created; a
\* failed bind ends the thread with the exception
forward_commands_setup ==
  /\ variant = "simple_relay"
  /\ pc["command"] = "setup"
  /\ \/ /\ relay' = [relay EXCEPT !.sockets.command_rx = "open", !.sockets.command_tx = "open"]
        /\ pc' = [pc EXCEPT !["command"] = "loop"]
        /\ UNCHANGED faults
     \/ /\ MayFault
        /\ Fault
        /\ pc' = [pc EXCEPT !["command"] = "crashed"]
        /\ UNCHANGED relay
  /\ UNCHANGED <<commVars, codecVars, writers, heartbeat_data, variant, enabled, loc, rx, tx>>

\* line 24: data, addr = cmd_in.recvfrom(1024)
forward_commands_recv ==
  /\ variant = "simple_relay"
  /\ pc["command"] = "loop"
  /\ MayDeliver
  /\ \E src \in SourceAddrs, p \in WirePayloads(1024) :
       /\ rx' = Received("command", src, p)
       /\ loc' = [loc EXCEPT !["command"].data = recvfrom(p, 1024)]
  /\ pc' = [pc EXCEPT !["command"] = "send"]
  /\ UNCHANGED <<commVars, codecVars, writers, heartbeat_data, variant, enabled, relay, tx, faults>>

\* lines 25-28: cmd_out.sendto(data, (DRONE_IP, DRONE_COMMAND_PORT)); any
\* exception is swallowed by the bare except
forward_commands_send ==
  /\ variant = "simple_relay"
  /\ pc["command"] = "send"
  /\ \/ /\ tx' = Sent("command", DRONE_IP, DRONE_COMMAND_PORT, loc["command"].data)
        /\ UNCHANGED faults
     \/ /\ MayFault
        /\ Fault
        /\ tx' = Forget(tx, "command")
  /\ pc' = [pc EXCEPT !["command"] = "loop"]
  /\ loc' = [loc EXCEPT !["command"] = NoLoc]
  /\ UNCHANGED <<commVars, codecVars, writers, heartbeat_data, variant, enabled, relay, rx>>

\* forward_telemetry, lines 33-37
forward_telemetry_setup ==
  /\ variant = "simple_relay"
  /\ pc["telemetry"] = "setup"
  /\ \/ /\ relay' = [relay EXCEPT !.sockets.telemetry_rx = "open", !.sockets.telemetry_tx = "open"]
        /\ pc' = [pc EXCEPT !["telemetry"] = "loop"]
        /\ UNCHANGED faults
     \/ /\ MayFault
        /\ Fault
        /\ pc' = [pc EXCEPT !["telemetry"] = "crashed"]
        /\ UNCHANGED relay
  /\ UNCHANGED <<commVars, codecVars, writers, heartbeat_data, variant, enabled, loc, rx, tx>>

\* line 43: data, addr = tel_in.recvfrom(4096)
forward_telemetry_recv ==
  /\ variant = "simple_relay"
  /\ pc["telemetry"] = "loop"
  /\ MayDeliver
  /\ \E p \in WirePayloads(4096) :
       /\ rx' = Received("telemetry", DRONE_IP, p)
       /\ loc' = [loc EXCEPT !["telemetry"].data = recvfrom(p, 4096)]
  /\ pc' = [pc EXCEPT !["telemetry"] = "send"]
  /\ UNCHANGED <<commVars, codecVars, writers, heartbeat_data, variant, enabled, relay, tx, faults>>

\* lines 44-47: tel_out.sendto(data, (BASE_STATION_IP,
\* BASE_STATION_TELEMETRY_PORT)); any exception is swallowed
forward_telemetry_send ==
  /\ variant = "simple_relay"
  /\ pc["telemetry"] = "send"
  /\ \/ /\ tx' = Sent("telemetry", BASE_STATION_IP, BASE_STATION_TELEMETRY_PORT, loc["telemetry"].data)
        /\ UNCHANGED faults
     \/ /\ MayFault
        /\ Fault
        /\ tx' = Forget(tx, "telemetry")
  /\ pc' = [pc EXCEPT !["telemetry"] = "loop"]
  /\ loc' = [loc EXCEPT !["telemetry"] = NoLoc]
  /\ UNCHANGED <<commVars, codecVars, writers, heartbeat_data, variant, enabled, relay, rx>>

simple_relayNext ==
  \/ simple_relay_main
  \/ forward_commands_setup
  \/ forward_commands_recv
  \/ forward_commands_send
  \/ forward_telemetry_setup
  \/ forward_telemetry_recv
  \/ forward_telemetry_send

(***************************************************************************)
(* DroneComm (base_station/connection/drone_comm.py) and its caller        *)
(* (base_station/gui/gui_controller.py)                                    *)
(***************************************************************************)
\* base_station/connection/network_config.py
network_config_DRONE_IP == "10.0.0.5"
COMMAND_PORT == 8889
TELEMETRY_PORT == 8888

\* calls of DroneComm methods in one run
MaxCalls == 3
\* calls of send_command by the owner of the object in one run
MaxSends == 1
\* faults the environment injects into the ground station in one run
MaxCommFaults == 1
\* writes of the FFmpeg process to its stdout in one run
MaxFeeds == 2
\* telemetry datagrams delivered to the ground station in one run
MaxTelemetry == 2
\* pipe writes and telemetry datagrams together in one run
MaxInputs == 2

\* receive_video_ffmpeg, lines 153-154
frame_width == 640
frame_height == 480
frame_size == frame_width * frame_height * 3

\* a text is the sequence of its Unicode code points
Text ==
  [ command |-> <<99, 111, 109, 109, 97, 110, 100>>,
    takeoff |-> <<116, 97, 107, 101, 111, 102, 102>>,
    land |-> <<108, 97, 110, 100>>,
    streamon |-> <<115, 116, 114, 101, 97, 109, 111, 110>>,
    streamoff |-> <<115, 116, 114, 101, 97, 109, 111, 102, 102>>,
    forward |-> <<102, 111, 114, 119, 97, 114, 100>>,
    backward |-> <<98, 97, 99, 107, 119, 97, 114, 100>>,
    left |-> <<108, 101, 102, 116>>,
    right |-> <<114, 105, 103, 104, 116>>,
    cw |-> <<99, 119>>,
    ccw |-> <<99, 99, 119>> ]

\* str(n) for n >= 0: the decimal digits
RECURSIVE str(_)
str(n) == IF n < 10 THEN <<48 + n>> ELSE str(n \div 10) \o <<48 + (n % 10)>>

\* gui_controller.move, line 147: f"{direction} {distance}"
move(direction, distance) == Text[direction] \o <<32>> \o str(distance)

\* str.encode() of one code point: UTF-8
encode_char(c) ==
  IF c < 128 THEN <<c>>
  ELSE IF c < 2048 THEN <<192 + (c \div 64), 128 + (c % 64)>>
  ELSE IF c < 65536 THEN <<224 + (c \div 4096), 128 + ((c \div 64) % 64), 128 + (c % 64)>>
  ELSE <<240 + (c \div 262144), 128 + ((c \div 4096) % 64), 128 + ((c \div 64) % 64), 128 + (c % 64)>>

\* an encode with the wrong codec: UTF-16, little endian, of the basic plane
RECURSIVE encode_utf16(_)
encode_utf16(s) ==
  IF s = <<>> THEN <<>>
  ELSE <<Head(s) % 256, Head(s) \div 256>> \o encode_utf16(Tail(s))

\* command.encode(), line 308
RECURSIVE encode(_)
encode(s) == IF s = <<>> THEN <<>> ELSE encode_char(Head(s)) \o encode(Tail(s))

\* the arguments a caller passes to move: the buttons of FlightControlsWidget
\* (gui_components.py, lines 185-207) and the turns of the SDK
Directions == {"forward", "backward", "left", "right", "cw", "ccw", "streamon", "streamoff"}
\* values of the distance slider (gui_components.py, lines 238-240): its
\* minimum, its initial value and its maximum
Distances == {10, 20, 100}

\* the command strings a caller passes to send_command
Commands ==
  {Text.command, Text.takeoff, Text.land, Text.streamon, Text.streamoff}
    \cup {move(d, 20) : d \in Directions}
    \cup {move("forward", n) : n \in Distances}

CommThreads == {"caller", "telemetry", "video"}

\* DroneComm.__init__, lines 26-43
DroneComm_init ==
  [ ip |-> network_config_DRONE_IP,
    command_port |-> COMMAND_PORT,
    telemetry_port |-> TELEMETRY_PORT,
    command_socket |-> None,
    telemetry_socket |-> None,
    connected |-> FALSE,
    running |-> FALSE,
    ffmpeg_process |-> None ]

\* the calls made so far: their number, the one before the latest, the
\* latest, and the number of status signals emitted before the latest began
NoCall == [n |-> 0, sends |-> 0, prev |-> "none", op |-> "none", arg |-> <<>>,
           result |-> "none", emitted |-> 0]
NoWire == [n |-> 0, bytes |-> <<>>, ip |-> None, port |-> 0]
NoSignal == [n |-> 0, connected |-> FALSE, message |-> "none"]
NoDecoder == [state |-> "none", pipe |-> 0, fed |-> 0, feeds |-> 0, orphans |-> 0,
              calls |-> <<>>]
NoVideo == [buf |-> 0, raw_frame |-> 0, consumed |-> 0, frames_received |-> 0,
            frames_emitted |-> 0, published |-> 0, needed |-> 0, sliced |-> 0]
\* the kinds of the telemetry datagrams received, in arrival order, and the
\* arrival numbers of those telemetry_received was emitted with, in the
\* order of the emissions
NoTelemetry == [arrived |-> <<>>, delivered |-> <<>>]

\* the environment may give the ground station one more input
MayInput(n) == n + Len(telemetry.arrived) + decoder.feeds <= MaxInputs

\* the environment may inject one more fault into the ground station
MayCFault == cfaults < MaxCommFaults

\* connection_status_changed.emit(connected, message)
emit(connected, message) ==
  [n |-> signals.n + 1, connected |-> connected, message |-> message]

\* send_command would reach sendto: lines 303-307
Sends(command) ==
  /\ comm.connected \/ command = Text.command
  /\ comm.command_socket # None

\* a send_command without the guard of lines 303-304
send_command_unguarded(command, sendto_ok) ==
  IF comm.command_socket # None
    THEN IF sendto_ok
           THEN [ret |-> "True",
                 wire |-> [n |-> wire.n + 1, bytes |-> encode(command),
                           ip |-> comm.ip, port |-> comm.command_port]]
           ELSE [ret |-> "False", wire |-> wire]
    ELSE [ret |-> "None", wire |-> wire]

\* a guard that asks for the socket instead of the connection
send_command_socket_guard(command, sendto_ok) ==
  IF comm.command_socket = None
    THEN [ret |-> "False", wire |-> wire]
    ELSE IF sendto_ok
           THEN [ret |-> "True",
                 wire |-> [n |-> wire.n + 1, bytes |-> encode(command),
                           ip |-> comm.ip, port |-> comm.command_port]]
           ELSE [ret |-> "False", wire |-> wire]

\* DroneComm.send_command, lines 301-312: what it returns and what is on the
\* wire afterwards; sendto_ok says whether sendto returns or raises.  With
\* no command socket the try block ends without a return: None
send_command(command, sendto_ok) ==
  IF ~comm.connected /\ command # Text.command
    THEN [ret |-> "False", wire |-> wire]
    ELSE IF comm.command_socket # None
           THEN IF sendto_ok
                  THEN [ret |-> "True",
                        wire |-> [n |-> wire.n + 1, bytes |-> encode(command),
                                  ip |-> comm.ip, port |-> comm.command_port]]
                  ELSE [ret |-> "False", wire |-> wire]
           ELSE [ret |-> "None", wire |-> wire]

\* the outcomes of sendto the environment may choose for this call, and the
\* fault count after it
SendtoOutcome(command, ok) ==
  /\ ok \in BOOLEAN
  /\ ~ok => (MayCFault /\ Sends(command))
  /\ cfaults' = IF ok THEN cfaults ELSE cfaults + 1

\* DroneComm.connect, lines 45-53 and 88-90, called as toggle_connection does
\* (gui_controller.py, lines 93-102) on a session that is not connected: the
\* command socket, the telemetry socket, its bind.  An exception of the k-th
\* of the three calls leaves the sockets assigned before it in place; the
\* handler emits the status and returns False
DroneComm_connect ==
  /\ cpc["caller"] = "idle"
  /\ call.n < MaxCalls
  /\ ~comm.connected
  /\ \/ /\ comm' = [comm EXCEPT !.command_socket = "open", !.telemetry_socket = "open"]
        /\ call' = [call EXCEPT !.n = @ + 1, !.prev = call.op, !.op = "connect",
                             !.arg = <<>>, !.result = "pending",
                             !.emitted = signals.n]
        /\ cpc' = [cpc EXCEPT !["caller"] = "connect_ffmpeg"]
        /\ UNCHANGED <<signals, cfaults>>
     \/ /\ MayCFault
        /\ cfaults' = cfaults + 1
        /\ \E k \in 0..2 :
             comm' = [comm EXCEPT
                        !.command_socket = IF k >= 1 THEN "open" ELSE @,
                        !.telemetry_socket = IF k >= 2 THEN "open" ELSE @]
        /\ signals' = emit(FALSE, "Connection error")
        /\ call' = [call EXCEPT !.n = @ + 1, !.prev = call.op, !.op = "connect",
                             !.arg = <<>>, !.result = "False",
                             !.emitted = signals.n]
        /\ UNCHANGED cpc
  /\ UNCHANGED <<relayVars, codecVars, wire, decoder, video, telemetry>>

\* the decoder after subprocess.Popen returned a new process: a process the
\* handle pointed to before keeps running without a handle
Popen == [state |-> "alive", pipe |-> 0, fed |-> 0, feeds |-> decoder.feeds,
          orphans |-> decoder.orphans + (IF decoder.state = "alive" THEN 1 ELSE 0),
          calls |-> <<>>]

\* connect, lines 56-58, with setup_ffmpeg_pipeline, lines 92-149: Popen
\* raises, or the process has ended when it is polled after 8 s, or it runs.
\* The decoder record is that of the new process from here on, so the step
\* is taken once the threads of the earlier session have ended (within the
\* 8 s of line 128 they have seen the cleared flag), or with the video
\* thread still blocked inside stdout.read of a process that disconnect
\* left running: that thread is the earlier one from here on
DroneComm_connect_ffmpeg ==
  /\ cpc["caller"] = "connect_ffmpeg"
  /\ cpc["telemetry"] \in {"off", "done", "crashed"}
  /\ \/ cpc["video"] \in {"off", "done", "crashed"}
     \/ cpc["video"] = "blocked" /\ cpc["earlier"] \in {"off", "done"}
  /\ \/ /\ comm' = [comm EXCEPT !.ffmpeg_process = "handle"]
        /\ decoder' = Popen
        /\ cpc' = [cpc EXCEPT !["caller"] = "connect_sdk",
                              !["earlier"] = IF cpc["video"] = "blocked" THEN "blocked" ELSE @,
                              !["video"] = IF @ = "blocked" THEN "off" ELSE @]
        /\ UNCHANGED <<signals, call, cfaults>>
     \/ /\ MayCFault
        /\ cfaults' = cfaults + 1
        /\ \/ UNCHANGED <<comm, decoder>>
           \/ /\ comm' = [comm EXCEPT !.ffmpeg_process = "handle"]
              /\ decoder' = [Popen EXCEPT !.state = "exited"]
        /\ signals' = emit(FALSE, "Failed to setup video pipeline")
        /\ call' = [call EXCEPT !.result = "False"]
        /\ cpc' = [cpc EXCEPT !["caller"] = "idle"]
  /\ UNCHANGED <<relayVars, codecVars, wire, video, telemetry>>

\* a test that takes every result of send_command for a success
truthy_always(ret) == TRUE

\* line 61, if self.send_command("command"): the truth value of what
\* send_command returned; False and None are false
truthy(ret) == ret = "True"

\* connect, lines 61-63 and 84-86: send_command("command"); on True the two
\* flags are set.  The workers of an earlier session have ended by now: they
\* saw the cleared flag within SOCKET_TIMEOUT, and the sleep of line 128
\* alone is 8 s
DroneComm_connect_sdk ==
  /\ cpc["caller"] = "connect_sdk"
  /\ cpc["telemetry"] \in {"off", "done", "crashed"}
  /\ cpc["video"] \in {"off", "done", "crashed"}
  /\ \E ok \in BOOLEAN :
       /\ SendtoOutcome(Text.command, ok)
       /\ LET r == send_command(Text.command, ok) IN
            /\ wire' = r.wire
            /\ IF truthy(r.ret)
                 THEN /\ comm' = [comm EXCEPT !.connected = TRUE, !.running = TRUE]
                      /\ cpc' = [cpc EXCEPT !["caller"] = "connect_streamon"]
                      /\ UNCHANGED <<signals, call>>
                 ELSE /\ signals' = emit(FALSE, "Failed to enter SDK mode")
                      /\ call' = [call EXCEPT !.result = "False"]
                      /\ cpc' = [cpc EXCEPT !["caller"] = "idle"]
                      /\ UNCHANGED comm
  /\ UNCHANGED <<relayVars, codecVars, decoder, video, telemetry>>

\* connect, lines 66-83: send_command("streamon"), whose result is only
\* printed; both threads are started; the status is emitted; True
DroneComm_connect_streamon ==
  /\ cpc["caller"] = "connect_streamon"
  /\ \E ok \in BOOLEAN :
       /\ SendtoOutcome(Text.streamon, ok)
       /\ wire' = send_command(Text.streamon, ok).wire
  /\ cpc' = [cpc EXCEPT !["caller"] = "idle", !["telemetry"] = "start", !["video"] = "while"]
  /\ video' = [NoVideo EXCEPT !.published = video.published]
  /\ signals' = emit(TRUE, "Connected to drone")
  /\ call' = [call EXCEPT !.result = "True"]
  /\ UNCHANGED <<relayVars, codecVars, comm, decoder, telemetry>>

\* DroneComm.disconnect, lines 259-269: on a connected session
\* send_command("streamoff"); then both flags are cleared
DroneComm_disconnect ==
  /\ cpc["caller"] = "idle"
  /\ call.n < MaxCalls
  /\ IF comm.connected
       THEN \E ok \in BOOLEAN :
              /\ SendtoOutcome(Text.streamoff, ok)
              /\ wire' = send_command(Text.streamoff, ok).wire
       ELSE UNCHANGED <<wire, cfaults>>
  /\ comm' = [comm EXCEPT !.running = FALSE, !.connected = FALSE]
  /\ call' = [call EXCEPT !.n = @ + 1, !.prev = call.op, !.op = "disconnect",
                       !.arg = <<>>, !.result = "pending", !.emitted = signals.n]
  /\ cpc' = [cpc EXCEPT !["caller"] = "disconnect_ffmpeg"]
  /\ UNCHANGED <<relayVars, codecVars, signals, decoder, video, telemetry>>

\* disconnect, lines 272-281: terminate(), wait(timeout=2.0); kill() when
\* the wait expires; an exception of terminate() or wait() is printed (line
\* 278) and leaves the process running; finally the handle is dropped
DroneComm_disconnect_ffmpeg ==
  /\ cpc["caller"] = "disconnect_ffmpeg"
  /\ IF comm.ffmpeg_process # None
       THEN /\ comm' = [comm EXCEPT !.ffmpeg_process = None]
            /\ IF decoder.state = "alive"
                 THEN \/ /\ \E outcome \in {"exits", "expires"} :
                               LET r == terminate_wait_kill(outcome) IN
                                 decoder' = [decoder EXCEPT !.state = r.state,
                                                            !.calls = r.calls]
                         /\ UNCHANGED cfaults
                      \/ /\ MayCFault
                         /\ cfaults' = cfaults + 1
                         /\ decoder' = [decoder EXCEPT
                                          !.calls = terminate_wait_kill("raises").calls]
                 ELSE /\ decoder' = [decoder EXCEPT
                                       !.calls = terminate_wait_kill("exits").calls]
                      /\ UNCHANGED cfaults
       ELSE UNCHANGED <<comm, decoder, cfaults>>
  /\ cpc' = [cpc EXCEPT !["caller"] = "disconnect_close"]
  /\ UNCHANGED <<relayVars, codecVars, call, wire, signals, video, telemetry>>

\* disconnect, lines 283-299: each live thread is joined for at most 1 s and
\* the result of the join is not looked at; a socket that is there is closed
\* and its attribute set to None; the status is emitted.  The two calls of
\* close() are in no try: when the k-th of them raises (an OSError of the
\* system's close), the exception leaves disconnect with the attribute
\* still set and the rest of the method not run
DroneComm_disconnect_close ==
  /\ cpc["caller"] = "disconnect_close"
  /\ \/ /\ comm' = [comm EXCEPT !.command_socket = None, !.telemetry_socket = None]
        /\ signals' = emit(FALSE, "Disconnected")
        /\ call' = [call EXCEPT !.result = "None"]
        /\ UNCHANGED cfaults
     \/ /\ MayCFault
        /\ cfaults' = cfaults + 1
        /\ \E k \in 1..2 :
             /\ k = 1 => comm.command_socket # None
             /\ k = 2 => comm.telemetry_socket # None
             /\ comm' = [comm EXCEPT !.command_socket = IF k = 2 THEN None ELSE @]
        /\ call' = [call EXCEPT !.result = "raised"]
        /\ UNCHANGED signals
  /\ cpc' = [cpc EXCEPT !["caller"] = "idle"]
  /\ UNCHANGED <<relayVars, codecVars, wire, decoder, video, telemetry>>

\* a call of send_command from the GUI (gui_controller.py, lines 136-151)
\* or any other owner of the object: lines 301-312
DroneComm_send_command ==
  /\ cpc["caller"] = "idle"
  /\ call.n < MaxCalls
  /\ call.sends < MaxSends
  /\ \E command \in Commands, ok \in BOOLEAN :
       /\ SendtoOutcome(command, ok)
       /\ LET r == send_command(command, ok) IN
            /\ wire' = r.wire
            /\ call' = [n |-> call.n + 1, sends |-> call.sends + 1, prev |-> call.op,
                        op |-> "send_command", arg |-> command, result |-> r.ret,
                        emitted |-> signals.n]
  /\ UNCHANGED <<relayVars, codecVars, comm, cpc, signals, decoder, video, telemetry>>

\* receive_telemetry, line 316: settimeout on the telemetry socket; when
\* disconnect has already set it to None the thread ends with the
\* AttributeError
receive_telemetry_start ==
  /\ cpc["telemetry"] = "start"
  /\ cpc' = [cpc EXCEPT !["telemetry"] =
               IF comm.telemetry_socket = None THEN "crashed" ELSE "loop"]
  /\ UNCHANGED <<relayVars, codecVars, comm, call, wire, signals, decoder, video, telemetry, cfaults>>

\* line 318: while self.running finds the flag cleared
receive_telemetry_exit ==
  /\ cpc["telemetry"] = "loop"
  /\ ~comm.running
  /\ cpc' = [cpc EXCEPT !["telemetry"] = "done"]
  /\ UNCHANGED <<relayVars, codecVars, comm, call, wire, signals, decoder, video, telemetry, cfaults>>

\* the kinds of telemetry datagram: a JSON object; bytes json.loads rejects
\* (JSONDecodeError, caught at line 327); and JSON that json.loads accepts
\* but that is no object (a list, a number), with which
\* telemetry_received(dict).emit raises TypeError.  Bytes that are not
\* UTF-8 take the path of the last kind without having been parsed.  A JSON
\* object is a telemetry snapshot of the vehicle ("object") or the heartbeat
\* of the relay, json.dumps of a dict with 'type': 'heartbeat'
\* (drone_relay.py, lines 317-327), sent to BASE_STATION_TELEMETRY_PORT
TelemetryKinds == {"object", "heartbeat", "malformed", "not_object"}

\* the kinds for which json.loads returns a dict
JsonObjects == {"object", "heartbeat"}

\* an emission of whatever was received, parsed or not
telemetry_received_emit_unparsed(kind, i) == <<i>>

\* an emission that is made twice
telemetry_received_emit_twice(kind, i) == IF kind \in JsonObjects THEN <<i, i>> ELSE <<>>

\* lines 324-325: the emissions of telemetry_received for the i-th datagram
telemetry_received_emit(kind, i) == IF kind \in JsonObjects THEN <<i>> ELSE <<>>

\* lines 318-336, the flag is set; one pass of the try: recvfrom(4096)
\* returns a datagram, or times out, or raises (no socket any more, or a
\* system error); the outer handler leaves the loop only when the flag is
\* cleared
receive_telemetry_recv ==
  /\ cpc["telemetry"] = "loop"
  /\ comm.running
  /\ \/ /\ comm.telemetry_socket # None
        /\ Len(telemetry.arrived) < MaxTelemetry
        /\ MayInput(1)
        /\ \E kind \in TelemetryKinds :
             /\ kind = "heartbeat" => comm.telemetry_port = BASE_STATION_TELEMETRY_PORT
             /\ telemetry' =
                  [arrived |-> Append(telemetry.arrived, kind),
                   delivered |-> telemetry.delivered
                                   \o telemetry_received_emit(kind, Len(telemetry.arrived) + 1)]
             /\ cpc' = [cpc EXCEPT !["telemetry"] =
                          IF kind = "not_object" /\ ~comm.running THEN "done" ELSE "loop"]
        /\ UNCHANGED cfaults
     \/ /\ comm.telemetry_socket # None
        /\ cpc' = [cpc EXCEPT !["telemetry"] = "loop"]
        /\ UNCHANGED <<telemetry, cfaults>>
     \/ /\ \/ /\ comm.telemetry_socket = None
              /\ UNCHANGED cfaults
           \/ /\ comm.telemetry_socket # None
              /\ MayCFault
              /\ cfaults' = cfaults + 1
        /\ cpc' = [cpc EXCEPT !["telemetry"] = IF comm.running THEN "loop" ELSE "done"]
        /\ UNCHANGED telemetry
  /\ UNCHANGED <<relayVars, codecVars, comm, call, wire, signals, decoder, video>>

\* receive_video_ffmpeg, lines 165-172: while self.running and
\* self.ffmpeg_process, and the two tests that repeat it
receive_video_ffmpeg_while ==
  /\ cpc["video"] = "while"
  /\ cpc' = [cpc EXCEPT !["video"] =
               IF comm.running /\ comm.ffmpeg_process # None THEN "poll" ELSE "done"]
  /\ UNCHANGED <<relayVars, codecVars, comm, call, wire, signals, decoder, video, telemetry, cfaults>>

\* lines 174-177: self.ffmpeg_process.poll(); the attribute is read again,
\* and when disconnect has set it to None in between, the AttributeError is
\* outside every try and ends the thread; an ended process ends the loop
receive_video_ffmpeg_poll ==
  /\ cpc["video"] = "poll"
  /\ cpc' = [cpc EXCEPT !["video"] =
               IF comm.ffmpeg_process = None THEN "crashed"
               ELSE IF decoder.state # "alive" THEN "done"
               ELSE "read"]
  /\ UNCHANGED <<relayVars, codecVars, comm, call, wire, signals, decoder, video, telemetry, cfaults>>

\* the bytes a read finds in the pipe: what an earlier read left there, or,
\* when the pipe is empty, one of the amounts the FFmpeg process has written
\* since (one byte, a frame less one byte, three frames)
FeedSizes == {1, frame_size - 1, 3 * frame_size}

\* a test that takes any bytes for a frame
full_frame_any(buf) == buf > 0

\* line 212, negated: buf holds a full frame
full_frame(buf) == ~(buf < frame_size)

\* line 215 with a slice one byte short
split_frame_short(buf) ==
  [raw_frame |-> Min(buf, frame_size - 1), buf |-> buf - Min(buf, frame_size - 1)]

\* a split whose rest begins one byte early: buf[:frame_size], buf[frame_size - 1:]
split_frame_overlap(buf) ==
  [raw_frame |-> Min(buf, frame_size), buf |-> buf - Min(buf, frame_size - 1)]

\* line 215: raw_frame, buf = buf[:frame_size], buf[frame_size:]
split_frame(buf) ==
  [raw_frame |-> Min(buf, frame_size), buf |-> buf - Min(buf, frame_size)]

\* a read that asks for a whole frame whatever the buffer holds
needed_whole_frame(buf) == frame_size

\* line 193: needed = frame_size - len(buf)
needed(buf) == frame_size - buf

\* lines 195 and 209-216: stdout.read(needed) returns at most needed bytes
\* of the avail the pipe holds; the data is appended to buf; a full buf is
\* split into raw_frame and the rest
stdout_read(avail) ==
  LET data == Min(needed(video.buf), avail)
      buf == video.buf + data
  IN /\ decoder' = [decoder EXCEPT
                      !.pipe = avail - data,
                      !.fed = IF decoder.pipe > 0 THEN @ ELSE @ + avail,
                      !.feeds = IF decoder.pipe > 0 THEN @ ELSE @ + 1]
     /\ IF ~full_frame(buf)
          THEN /\ video' = [video EXCEPT !.buf = buf, !.consumed = @ + data,
                                         !.needed = needed(video.buf)]
               /\ cpc' = [cpc EXCEPT !["video"] = "while"]
          ELSE /\ video' = [video EXCEPT !.raw_frame = split_frame(buf).raw_frame,
                                         !.buf = split_frame(buf).buf,
                                         !.consumed = @ + data,
                                         !.frames_received = @ + 1,
                                         !.sliced = @ + split_frame(buf).raw_frame,
                                         !.needed = needed(video.buf)]
               /\ cpc' = [cpc EXCEPT !["video"] = "emit"]

\* the thread holds the pipe of the process: it is inside stdout.read, or
\* it is about to call it and the attribute is not None
HoldsPipe == cpc["video"] = "blocked" \/ comm.ffmpeg_process # None

\* lines 193-216: needed = frame_size - len(buf); stdout.read(needed)
\* returns what the pipe holds, or b'' at end of file; it blocks while a
\* live process has written nothing.  When the attribute is None at the
\* call, the AttributeError is caught (line 196) and the loop is left; a
\* read that was already blocked inside the call holds the pipe object and
\* returns only with bytes or at end of file
receive_video_ffmpeg_read ==
  /\ cpc["video"] \in {"read", "blocked"}
  /\ \/ /\ HoldsPipe
        /\ decoder.pipe > 0
        /\ stdout_read(decoder.pipe)
     \/ /\ HoldsPipe
        /\ decoder.pipe = 0
        /\ decoder.state # "alive"
        /\ cpc' = [cpc EXCEPT !["video"] = "while"]
        /\ video' = [video EXCEPT !.needed = needed(video.buf)]
        /\ UNCHANGED decoder
     \/ /\ cpc["video"] = "read"
        /\ comm.ffmpeg_process = None
        /\ cpc' = [cpc EXCEPT !["video"] = "done"]
        /\ UNCHANGED <<decoder, video>>
     \/ /\ cpc["video"] = "read"
        /\ comm.ffmpeg_process # None
        /\ decoder.pipe = 0
        /\ decoder.state = "alive"
        /\ cpc' = [cpc EXCEPT !["video"] = "blocked"]
        /\ video' = [video EXCEPT !.needed = needed(video.buf)]
        /\ UNCHANGED decoder
  /\ UNCHANGED <<relayVars, codecVars, comm, call, wire, signals, telemetry, cfaults>>

\* the same read when the pipe is empty and the FFmpeg process writes one of
\* FeedSizes to it: the read returns with these bytes.  Whether and when the
\* process writes depends on the video that reaches it, not on the thread
receive_video_ffmpeg_read_written ==
  /\ cpc["video"] \in {"read", "blocked"}
  /\ HoldsPipe
  /\ decoder.pipe = 0
  /\ decoder.feeds < MaxFeeds
  /\ MayInput(1)
  /\ \E avail \in FeedSizes : stdout_read(avail)
  /\ UNCHANGED <<relayVars, codecVars, comm, call, wire, signals, telemetry, cfaults>>

\* lines 229-255: the frame becomes a QImage and video_frame_received is
\* emitted with it; a null image or an exception publishes nothing
receive_video_ffmpeg_emit ==
  /\ cpc["video"] = "emit"
  /\ \/ /\ video' = [video EXCEPT !.frames_emitted = @ + 1,
                                  !.published = video.raw_frame,
                                  !.raw_frame = 0]
        /\ UNCHANGED cfaults
     \/ /\ MayCFault
        /\ cfaults' = cfaults + 1
        /\ video' = [video EXCEPT !.raw_frame = 0]
  /\ cpc' = [cpc EXCEPT !["video"] = "while"]
  /\ UNCHANGED <<relayVars, codecVars, comm, call, wire, signals, decoder, telemetry>>

\* the video thread of an earlier session, blocked inside stdout.read
\* (line 195) of the process that session's disconnect left running: the
\* read returns when that process writes or ends, and the thread goes on
\* to the test of line 165
receive_video_ffmpeg_earlier_returns ==
  /\ cpc["earlier"] = "blocked"
  /\ cpc' = [cpc EXCEPT !["earlier"] = "while"]
  /\ UNCHANGED <<relayVars, codecVars, comm, call, wire, signals, decoder, video, telemetry, cfaults>>

\* lines 165-172 in the earlier thread: self.running and
\* self.ffmpeg_process are those of the object, set again by a later connect
receive_video_ffmpeg_earlier_while ==
  /\ cpc["earlier"] = "while"
  /\ cpc' = [cpc EXCEPT !["earlier"] =
               IF comm.running /\ comm.ffmpeg_process # None THEN "read" ELSE "done"]
  /\ UNCHANGED <<relayVars, codecVars, comm, call, wire, signals, decoder, video, telemetry, cfaults>>

\* lines 174-216 in the earlier thread: poll() and stdout.read(needed) on
\* self.ffmpeg_process, the process of the present session: the bytes it
\* takes from the pipe, here a frame or what there is of it, go to its own
\* buf and are lost to the thread of the present session
receive_video_ffmpeg_earlier_read ==
  /\ cpc["earlier"] = "read"
  /\ IF comm.ffmpeg_process = None \/ decoder.state # "alive"
       THEN /\ cpc' = [cpc EXCEPT !["earlier"] = "done"]
            /\ UNCHANGED decoder
       ELSE /\ decoder.pipe > 0
            /\ decoder' = [decoder EXCEPT !.pipe = @ - Min(decoder.pipe, frame_size)]
            /\ cpc' = [cpc EXCEPT !["earlier"] = "while"]
  /\ UNCHANGED <<relayVars, codecVars, comm, call, wire, signals, video, telemetry, cfaults>>

\* the FFmpeg process ends by itself
ffmpeg_exits ==
  /\ decoder.state = "alive"
  /\ MayCFault
  /\ cfaults' = cfaults + 1
  /\ decoder' = [decoder EXCEPT !.state = "exited"]
  /\ UNCHANGED <<relayVars, codecVars, comm, cpc, call, wire, signals, video, telemetry>>

CommNext ==
  \/ DroneComm_connect
  \/ DroneComm_connect_ffmpeg
  \/ DroneComm_connect_sdk
  \/ DroneComm_connect_streamon
  \/ DroneComm_disconnect
  \/ DroneComm_disconnect_ffmpeg
  \/ DroneComm_disconnect_close
  \/ DroneComm_send_command
  \/ receive_telemetry_start
  \/ receive_telemetry_exit
  \/ receive_telemetry_recv
  \/ receive_video_ffmpeg_while
  \/ receive_video_ffmpeg_poll
  \/ receive_video_ffmpeg_read
  \/ receive_video_ffmpeg_read_written
  \/ receive_video_ffmpeg_emit
  \/ receive_video_ffmpeg_earlier_returns
  \/ receive_video_ffmpeg_earlier_while
  \/ receive_video_ffmpeg_earlier_read
  \/ ffmpeg_exits

\* the ground station before any call
CommIdle ==
  /\ comm = DroneComm_init
  /\ cpc = [caller |-> "idle", telemetry |-> "off", video |-> "off", earlier |-> "off"]
  /\ call = NoCall
  /\ wire = NoWire
  /\ signals = NoSignal
  /\ decoder = NoDecoder
  /\ video = NoVideo
  /\ telemetry = NoTelemetry
  /\ cfaults = 0

\* no relay process in the picture
RelayAbsent ==
  /\ variant = "none"
  /\ enabled = {}
  /\ relay = [running |-> FALSE]
  /\ pc = [t \in Threads |-> "off"]
  /\ loc = [t \in Threads |-> NoLoc]
  /\ rx = [ch \in Channels |-> NoRx]
  /\ tx = [ch \in Channels |-> NoTx]
  /\ faults = 0
  /\ heartbeat_data = [type |-> "none"]
  /\ writers = {}

\* no legacy video datagram has arrived
NoLegacy == [n |-> 0, pending |-> FALSE, datagram |-> <<>>, crafted |-> 0,
             out |-> [status |-> "none"]]

\* no simulator and no legacy video in the picture
CodecIdle ==
  /\ simulator = [running |-> FALSE, frame_count |-> 0, sent |-> 0]
  /\ legacy = NoLegacy

CommInit == CommIdle /\ RelayAbsent /\ CodecIdle

SpecComm == CommInit /\ [][CommNext]_vars

\* scheduling: a thread that is started runs (threading.Thread.start, lines
\* 72-79), and a call of disconnect that has begun goes on to its end; what
\* the FFmpeg process writes is the environment's choice: the step in which
\* it writes (receive_video_ffmpeg_read_written) carries no fairness, so a
\* read of a silent process may stay blocked.  A recvfrom of the telemetry
\* socket returns after SOCKET_TIMEOUT at the latest
CommFairness ==
  /\ WF_vars(receive_telemetry_start)
  /\ WF_vars(receive_telemetry_exit)
  /\ WF_vars(receive_telemetry_recv)
  /\ WF_vars(receive_video_ffmpeg_while)
  /\ WF_vars(receive_video_ffmpeg_poll)
  /\ WF_vars(receive_video_ffmpeg_read)
  /\ WF_vars(receive_video_ffmpeg_emit)
  /\ WF_vars(DroneComm_disconnect_ffmpeg)
  /\ WF_vars(DroneComm_disconnect_close)

SpecCommFair == CommInit /\ [][CommNext]_vars /\ CommFairness

(***************************************************************************)
(* The legacy video datagram: its sender                                   *)
(* (drone_simulator/headless_drone_simulator_with_video.py, video_sender)  *)
(* and its decoder, of which base_station/connection/drone_comm.py keeps   *)
(* only the stub receive_video                                             *)
(***************************************************************************)
\* frames the simulator sends in one run
MaxFrames == 3
\* datagrams that reach the legacy video port from elsewhere in one run
MaxCrafted == 2

Digits == 48..57
Colon == 58
Dot == 46

\* values of time.time(): seconds and the digits after the point in the
\* shortest text of the float ("12345.0" has the digit 0)
Times == {[whole |-> 12345, frac |-> <<0>>], [whole |-> 1700000000, frac |-> <<2, 5>>]}

\* f"{t}" of a float: the whole part, a point, the digits after it
float_str(t) == str(t.whole) \o <<Dot>> \o [i \in 1..Len(t.frac) |-> 48 + t.frac[i]]

\* the bytes cv2.imencode('.jpg', ...) returns (line 368) start with the JPEG
\* marker FF D8; these are images of 4 and of 2 bytes
JpegImages == {<<255, 216, 255, 217>>, <<255, 216>>}

\* header_length.to_bytes(2, byteorder='big') with the bytes swapped
to_bytes_little(n) == <<n % 256, n \div 256>>

\* line 378: header_length.to_bytes(2, byteorder='big'), for n < 65536
to_bytes(n) == <<n \div 256, n % 256>>

\* line 374: f"{self.frame_count}:{time.time()}".encode()
header(frame_count, t) == encode(str(frame_count) \o <<Colon>> \o float_str(t))

\* lines 377-381: prefix + header + data
packet(hdr, data) == to_bytes(Len(hdr)) \o hdr \o data

\* HeadlessDroneSimulatorWithVideo.__init__, lines 50 and 63
Simulator_init == [running |-> TRUE, frame_count |-> 0, sent |-> 0]

\* video_sender, lines 359-399, one pass of the loop: the frame counter is
\* incremented, the packet is built and sent; a sendto that raises is caught
\* at line 396 and the frame is lost.  The datagram reaches the legacy video
\* port of the ground station when the decoder is free to take it
video_sender ==
  /\ simulator.running
  /\ simulator.frame_count < MaxFrames
  /\ \E t \in Times, data \in JpegImages, sendto_ok \in BOOLEAN :
       /\ simulator' = [simulator EXCEPT !.frame_count = @ + 1,
                                         !.sent = IF sendto_ok THEN @ + 1 ELSE @]
       /\ IF sendto_ok /\ ~legacy.pending
            THEN legacy' = [legacy EXCEPT
                              !.n = @ + 1, !.pending = TRUE,
                              !.datagram = packet(header(simulator.frame_count + 1, t), data)]
            ELSE UNCHANGED legacy
  /\ UNCHANGED <<relayVars, commVars>>

\* HeadlessDroneSimulatorWithVideo.stop, line 97
Simulator_stop ==
  /\ simulator.running
  /\ simulator' = [simulator EXCEPT !.running = FALSE]
  /\ UNCHANGED <<relayVars, commVars, legacy>>

\* header texts a datagram from elsewhere may carry: "42:12345", "42:12345.0",
\* "4212345" (no colon), "x:1" (no frame number)
CraftedHeaders ==
  { <<52, 50, 58, 49, 50, 51, 52, 53>>,
    <<52, 50, 58, 49, 50, 51, 52, 53, 46, 48>>,
    <<52, 50, 49, 50, 51, 52, 53>>,
    <<120, 58, 49>> }

\* image bytes of such a datagram: a JPEG, bytes that are no image, nothing
CraftedImages == JpegImages \cup {<<1, 2, 3>>, <<>>}

\* the datagrams that reach the legacy video port from elsewhere: well
\* formed ones, ones whose length prefix is one less or far more than the
\* header, and one of a single byte
CraftedDatagrams ==
  {packet(h, img) : h \in CraftedHeaders, img \in CraftedImages}
    \cup {to_bytes(Len(h) - 1) \o h \o img : h \in CraftedHeaders, img \in CraftedImages}
    \cup {to_bytes(300) \o h : h \in CraftedHeaders}
    \cup {<<0>>}

\* a datagram from elsewhere arrives at the legacy video port
legacy_datagram_arrives ==
  /\ ~legacy.pending
  /\ legacy.crafted < MaxCrafted
  /\ \E d \in CraftedDatagrams :
       legacy' = [legacy EXCEPT !.n = @ + 1, !.pending = TRUE, !.datagram = d,
                                !.crafted = @ + 1]
  /\ UNCHANGED <<relayVars, commVars, simulator>>

\* the position of the first colon in a text, 0 when it has none
RECURSIVE find_colon(_, _)
find_colon(s, i) ==
  IF i > Len(s) THEN 0 ELSE IF s[i] = Colon THEN i ELSE find_colon(s, i + 1)

\* the text is a non-empty sequence of decimal digits
is_digits(s) == Len(s) > 0 /\ \A i \in 1..Len(s) : s[i] \in Digits

\* int(s) of a sequence of decimal digits
RECURSIVE int(_)
int(s) == IF s = <<>> THEN 0 ELSE 10 * int(SubSeq(s, 1, Len(s) - 1)) + (s[Len(s)] - 48)

\* the position of the point in a text, 0 when it has none
RECURSIVE find_dot(_, _)
find_dot(s, i) ==
  IF i > Len(s) THEN 0 ELSE IF s[i] = Dot THEN i ELSE find_dot(s, i + 1)

\* the text is a number: digits, or digits, a point and digits
is_number(s) ==
  LET d == find_dot(s, 1) IN
    IF d = 0 THEN is_digits(s)
    ELSE is_digits(SubSeq(s, 1, d - 1)) /\ is_digits(SubSeq(s, d + 1, Len(s)))

\* the number a text stands for: its whole part and the digits after the
\* point (none for an integer)
number(s) ==
  LET d == find_dot(s, 1) IN
    IF d = 0 THEN [whole |-> int(s), frac |-> <<>>]
    ELSE [whole |-> int(SubSeq(s, 1, d - 1)),
          frac |-> [i \in 1..(Len(s) - d) |-> s[d + i] - 48]]

\* the image bytes decode: they start with the JPEG marker FF D8
imdecode_ok(img) == Len(img) >= 2 /\ img[1] = 255 /\ img[2] = 216

dropped == [status |-> "dropped"]

\* the legacy per-datagram decoder: a 2-byte big-endian length L, a header
\* of L bytes "<frameNumber>:<timestamp>", the image bytes; the datagram is
\* dropped when L exceeds what follows the prefix, the header does not split
\* on ':' into two numbers, or the image does not decode
decode(d) ==
  IF Len(d) < 2 THEN dropped
  ELSE LET L == d[1] * 256 + d[2] IN
    IF 2 + L > Len(d) THEN dropped
    ELSE LET hdr == SubSeq(d, 3, 2 + L)
             image == SubSeq(d, 3 + L, Len(d))
             c == find_colon(hdr, 1)
         IN IF c = 0 THEN dropped
            ELSE IF ~is_digits(SubSeq(hdr, 1, c - 1)) \/ ~is_number(SubSeq(hdr, c + 1, Len(hdr)))
              THEN dropped
            ELSE IF ~imdecode_ok(image) THEN dropped
            ELSE [status |-> "frame", frameNumber |-> int(SubSeq(hdr, 1, c - 1)),
                  timestamp |-> number(SubSeq(hdr, c + 1, Len(hdr))), image |-> image]

\* the legacy receive loop takes the datagram and decodes it
receive_video ==
  /\ legacy.pending
  /\ legacy' = [legacy EXCEPT !.pending = FALSE, !.out = decode(legacy.datagram)]
  /\ UNCHANGED <<relayVars, commVars, simulator>>

CodecNext ==
  \/ video_sender
  \/ Simulator_stop
  \/ legacy_datagram_arrives
  \/ receive_video

CodecInit ==
  /\ simulator = Simulator_init
  /\ legacy = NoLegacy
  /\ CommIdle
  /\ RelayAbsent

SpecCodec == CodecInit /\ [][CodecNext]_vars

Variants == {"DroneRelay", "DroneRelayRTP", "CommunicationBridge", "simple_relay"}

\* relay_config.py, lines 56-59 and 82, sets all five flags.  The services
\* share only the running flag, the statistics and the socket table; a run
\* of the model enables one of these sets of services.
EnabledSets ==
  { {"command", "telemetry"},
    {"command", "video"},
    {"telemetry", "video"},
    {"command", "heartbeat", "statistics"},
    {"telemetry", "heartbeat", "statistics"},
    {"video", "heartbeat", "statistics"} }

RelayInit ==
  /\ variant \in Variants
  /\ enabled \in (IF variant = "DroneRelay" THEN EnabledSets ELSE {{}})
  /\ relay = CASE variant = "DroneRelay" -> DroneRelay_init
             [] variant = "DroneRelayRTP" -> DroneRelayRTP_init
             [] variant = "CommunicationBridge" -> CommunicationBridge_init
             [] variant = "simple_relay" -> simple_relay_init
  /\ pc = [t \in Threads |-> "init"]
  /\ loc = [t \in Threads |-> NoLoc]
  /\ rx = [ch \in Channels |-> NoRx]
  /\ tx = [ch \in Channels |-> NoTx]
  /\ faults = 0
  /\ heartbeat_data = [type |-> "none"]
  /\ writers = {}
  /\ CommIdle
  /\ CodecIdle

RelayNext ==
  \/ DroneRelayNext
  \/ DroneRelayRTPNext
  \/ CommunicationBridgeNext
  \/ simple_relayNext

SpecRelay == RelayInit /\ [][RelayNext]_vars

\* scheduling of the video threads: a thread that is started runs
\* (threading.Thread.start), its sleeps of 1 s and 2 s end, and Popen
\* returns or raises; when FFmpeg exits, when stop() is called and what
\* the other threads do is left open
RelayVideoFairness ==
  /\ WF_vars(video_relay_worker_setup)
  /\ WF_vars(video_relay_worker_while)
  /\ WF_vars(video_relay_worker_restart)
  /\ WF_vars(video_relay_worker_popen)
  /\ WF_vars(video_relay_worker_errors_store)
  /\ WF_vars(video_worker_setup)
  /\ WF_vars(video_worker_while)
  /\ WF_vars(video_worker_restart)
  /\ WF_vars(video_worker_popen)

SpecRelayFair == RelayInit /\ [][RelayNext]_vars /\ RelayVideoFairness

(***************************************************************************)
(* Properties of the relays                                                *)
(***************************************************************************)
\* the forwarded-commands counter of the running program (simple_relay
\* keeps none)
CommandsForwarded ==
  CASE variant \in {"DroneRelay", "DroneRelayRTP"} -> relay.statistics.commands_forwarded
    [] variant = "CommunicationBridge" -> relay.stats.commands_relayed
    [] OTHER -> 0

\* the datagram of the current loop iteration of channel ch has been sent
ForwardedNow(ch) == tx[ch].of > 0 /\ tx[ch].of = rx[ch].n

\* C1: in the command direction a datagram whose source address is not in
\* the allow-list is never forwarded to the vehicle and never counted in the
\* commands-forwarded counter, whatever its payload, in every relay variant
\* that forwards commands.
C1_UnauthorizedNeverForwarded ==
  /\ ForwardedNow("command") => rx["command"].src \in AllowList
  /\ tx["command"].n <= rx["command"].allowed
  /\ CommandsForwarded <= rx["command"].allowed

\* C1, the part that holds: DroneRelay has dropped a datagram from outside
\* ALLOWED_BASE_STATIONS without a send
C1_DroppedByDroneRelay ==
  /\ variant = "DroneRelay"
  /\ pc["command"] = "dropped"
  /\ rx["command"].src \notin ALLOWED_BASE_STATIONS
  /\ tx["command"].n = rx["command"].allowed

C2_Step ==
  variant = "DroneRelay" =>
    \* a datagram goes out only by a sendto that returns: one datagram, to
    \* the vehicle-facing destination, for an allow-listed datagram
    /\ tx'["command"].n # tx["command"].n =>
         /\ pc["command"] = "send" /\ pc'["command"] = "count_store"
         /\ tx'["command"].n = tx["command"].n + 1
         /\ tx'["command"].ip = DRONE_IP
         /\ tx'["command"].port = DRONE_COMMAND_PORT
         /\ tx'["command"].data = loc["command"].data
         /\ rx["command"].src \in ALLOWED_BASE_STATIONS
    \* the counter moves only by the store that follows such a send, by 1
    /\ relay'.statistics.commands_forwarded # relay.statistics.commands_forwarded =>
         /\ pc["command"] = "count_store"
         /\ relay'.statistics.commands_forwarded = relay.statistics.commands_forwarded + 1
    /\ (pc["command"] = "count_store" /\ pc'["command"] # "count_store") =>
         relay'.statistics.commands_forwarded = relay.statistics.commands_forwarded + 1
    \* a sendto that raises sends nothing and goes to the handler
    /\ (pc["command"] = "send" /\ pc'["command"] # "send") =>
         \/ pc'["command"] = "count_store" /\ tx'["command"].n = tx["command"].n + 1
         \/ pc'["command"] = "except" /\ tx'["command"].n = tx["command"].n
    \* a datagram from outside the allow-list leads to the drop, not a send
    /\ (rx'["command"].n # rx["command"].n /\ rx'["command"].src \notin ALLOWED_BASE_STATIONS) =>
         /\ pc'["command"] = "dropped"
         /\ tx'["command"] = tx["command"]
         /\ relay'.statistics.commands_forwarded = relay.statistics.commands_forwarded
    /\ pc["command"] = "dropped" =>
         /\ tx'["command"] = tx["command"]
         /\ relay'.statistics.commands_forwarded = relay.statistics.commands_forwarded

RecvBufsize(ch) ==
  CASE variant = "CommunicationBridge" -> MAX_PACKET_SIZE
    [] variant = "simple_relay" /\ ch = "command" -> 1024
    [] OTHER -> BUFFER_SIZE

C9_CountersNeverDecrease ==
  [][variant = "DroneRelay" =>
       /\ relay'.statistics.commands_forwarded >= relay.statistics.commands_forwarded
       /\ relay'.statistics.telemetry_forwarded >= relay.statistics.telemetry_forwarded
       /\ relay'.statistics.video_bytes_forwarded >= relay.statistics.video_bytes_forwarded
       /\ relay'.statistics.errors >= relay.statistics.errors]_vars

\* C9: two workers are between the read and the store of errors += 1
C9_TwoWritersOfErrors ==
  /\ variant = "DroneRelay"
  /\ pc["command"] = "errors_store"
  /\ pc["telemetry"] = "errors_store"

\* the threads that have stored the field of the statistics
WritersOf(field) == {t \in Threads : <<field, t>> \in writers}

\* C16: single-writer discipline of RelayStatistics in DroneRelay: every field
\* of the statistics, errors included, is stored by at most one loop, and the
\* heartbeat loop and the statistics reporter store none.
C16_SingleWriter ==
  variant = "DroneRelay" =>
    /\ \A field \in DOMAIN relay.statistics : Cardinality(WritersOf(field)) <= 1
    /\ \A p \in writers : p[2] \notin {"heartbeat", "statistics"}

\* C16: the command loop and the telemetry loop have both stored errors
C16_ErrorsStoredByTwoLoops ==
  /\ variant = "DroneRelay"
  /\ {"command", "telemetry"} \subseteq WritersOf("errors")

\* the step is the command loop of DroneRelay receiving a datagram from an
\* address outside the allow-list, or leaving it at the continue of line 174
DropStep ==
  /\ variant = "DroneRelay"
  /\ pc'["command"] # pc["command"]
  /\ "dropped" \in {pc["command"], pc'["command"]}

\* C18: dropping an unauthorized command leaves every field of the statistics
\* as it was: commands_forwarded, errors, last_command_time and all the
\* others, and the drop stores none of them.
C18_DropLeavesStatistics ==
  [][DropStep => /\ relay'.statistics = relay.statistics
                 /\ writers' = writers]_vars

\* C18: an unauthorized command has been received and dropped, and the
\* command loop is back at its receive
C18_UnauthorizedDropped ==
  /\ variant = "DroneRelay"
  /\ rx["command"].n > rx["command"].allowed
  /\ pc["command"] = "loop"
  /\ relay.running

\* the threads of the running program that forward datagrams in a loop
\* guarded by the running flag (the video thread of DroneRelay and of
\* DroneRelayRTP supervises an FFmpeg process and forwards nothing itself;
\* the loops of simple_relay are while True)
ForwardingLoops ==
  CASE variant = "DroneRelay" -> {"command", "telemetry"}
    [] variant = "DroneRelayRTP" -> {"command"}
    [] variant = "CommunicationBridge" -> {"command", "telemetry", "video"}
    [] OTHER -> {}

\* the positions inside the while loop of a forwarding thread
LoopPositions == {"loop", "dropped", "send", "count_store", "except", "errors_store"}

ChannelFields ==
  [ command |-> [count |-> "commands_forwarded", bytes |-> "command_bytes_forwarded",
                 last |-> "last_command_time"],
    telemetry |-> [count |-> "telemetry_forwarded", bytes |-> "telemetry_bytes_forwarded",
                   last |-> "last_telemetry_time"] ]

\* the value of a key of the statistics; a key the dictionary does not have
\* counts nothing
StatisticsValue(statistics, key) ==
  IF key \in DOMAIN statistics THEN statistics[key] ELSE 0

\* the step after a successful sendto in which the loop of the channel
\* updates the statistics (lines 184-185, 233-234)
CountStep(ch) ==
  /\ variant = "DroneRelay"
  /\ pc[ch] = "count_store"
  /\ pc'[ch] # pc[ch]

\* C23: each successful forward on a channel of DroneRelay increments the
\* forwarded-count of the channel by one, increases its bytes-forwarded
\* counter by the length of the payload, and sets its last-activity
\* timestamp to the time of the forward.
C23_ForwardCounted ==
  [][\A ch \in {"command", "telemetry"} :
       CountStep(ch) =>
         LET f == ChannelFields[ch]
             old == relay.statistics
             new == relay'.statistics
         IN /\ StatisticsValue(new, f.count) = StatisticsValue(old, f.count) + 1
            /\ StatisticsValue(new, f.bytes) = StatisticsValue(old, f.bytes) + loc[ch].data.len
            /\ StatisticsValue(new, f.last) = tx[ch].n]_vars

\* C23: DroneRelay has forwarded the seven bytes of one command and counted
\* it; no counter of the statistics holds the seven
C23_CommandCountedWithoutBytes ==
  /\ variant = "DroneRelay"
  /\ tx["command"].n = 1
  /\ relay.statistics.commands_forwarded = 1
  /\ relay.statistics.last_command_time = 1
  /\ relay.statistics.video_bytes_forwarded = 0
  /\ pc["command"] = "loop"

\* the step is a sendto of the forwarding loop of channel ch
SendStep(ch) == tx'[ch].n = tx[ch].n + 1

\* the datagram sent is the latest one received on the channel, and a later
\* one than any sent before: the datagrams forwarded are a subsequence of
\* those received, in their order, none forwarded twice
C24_InOrderOnce(ch) ==
  /\ tx'[ch].last = rx[ch].n
  /\ tx'[ch].last > tx[ch].last

HeartbeatAttempt == pc["heartbeat"] = "beat" /\ pc'["heartbeat"] # "beat"

\* C25: any two consecutive heartbeat send attempts are separated by one
\* full KEEPALIVE_INTERVAL wait, whether or not the earlier one succeeded:
\* after every attempt the heartbeat thread is at its sleep.
C25_SleepAfterEveryAttempt ==
  [][HeartbeatAttempt => pc'["heartbeat"] = "sleep"]_vars

\* C25: the only heartbeat attempt so far has failed (no other worker has
\* met an error) and the thread is at its next attempt with no sleep between
C25_SecondAttemptWithoutSleep ==
  /\ variant = "DroneRelay"
  /\ relay.running
  /\ pc["heartbeat"] = "beat"
  /\ heartbeat_data.type = "none"
  /\ faults = 1
  /\ \A w \in {"command", "telemetry", "video"} : pc[w] \in {"off", "setup"}

\* the receive socket of the forwarding loop w could not be bound: the
\* thread has ended and the socket was never entered in self.sockets
BindFailed(w) ==
  /\ variant \in {"DroneRelay", "DroneRelayRTP"}
  /\ pc[w] \in {"crashed", "done"}
  /\ relay.sockets[IF w = "command" THEN "command_rx" ELSE "telemetry_rx"] = None

\* C27: when a required receive port of the relay cannot be bound, the start
\* attempt is aborted and reported as failed to the caller of start(), which
\* is not left with "all services started", and no worker of the attempt is
\* left running.
C27_FailedBindAbortsStart ==
  \A w \in {"command", "telemetry"} :
    BindFailed(w) =>
      /\ pc["main"] # "started"
      /\ \A v \in Workers : pc[v] \in {"off", "done", "crashed"}

\* C27: the command port of DroneRelay could not be bound; start() has
\* returned with its success message and the telemetry loop is forwarding
C27_StartedWithoutCommandPort ==
  /\ variant = "DroneRelay"
  /\ BindFailed("command")
  /\ pc["command"] = "crashed"
  /\ pc["main"] = "started"
  /\ relay.running
  /\ pc["telemetry"] = "loop"
  /\ tx["telemetry"].n > 0

\* C31: the bridge forwards each channel to the port the control station
\* has for it: every telemetry datagram to CONTROL_TELEMETRY_PORT and every
\* legacy-video datagram to CONTROL_VIDEO_PORT of the control station, not
\* to the port the bridge itself listens on.
C31_ForwardedToControlPorts ==
  [][variant = "CommunicationBridge" =>
       /\ SendStep("telemetry") => /\ tx'["telemetry"].ip = CONTROL_STATION_PUBLIC_IP
                                   /\ tx'["telemetry"].port = CONTROL_TELEMETRY_PORT
       /\ SendStep("video") => /\ tx'["video"].ip = CONTROL_STATION_PUBLIC_IP
                               /\ tx'["video"].port = CONTROL_VIDEO_PORT]_vars

\* C31: the bridge has sent a legacy-video datagram to the control station,
\* to the number of its own listen port
C31_VideoSentToListenPort ==
  /\ variant = "CommunicationBridge"
  /\ tx["video"].n = 1
  /\ tx["video"].ip = CONTROL_STATION_PUBLIC_IP
  /\ tx["video"].port = BRIDGE_VIDEO_PORT
  /\ tx["video"].data = rx["video"].payload

\* stop() has returned and every worker thread of the relay has ended
StoppedAndFinished ==
  /\ pc["main"] = "stopped"
  /\ \A w \in Workers : pc[w] \in {"off", "done", "crashed"}

\* C32: once stop() has returned and the workers have finished, no FFmpeg
\* process started by the relay is running, however stop() interleaves with
\* the video worker's detection of an exit, its sleep and its restart.
C32_NoVideoProcessLeft ==
  (variant = "DroneRelay" /\ StoppedAndFinished) => relay.video_process # "alive"

\* C32: stop() found the FFmpeg process already exited (terminate and wait
\* returned at once) while the video worker was on its way to restart it;
\* stop() has returned, the worker has ended, the new process is running
C32_RestartedAfterStop ==
  /\ variant = "DroneRelay"
  /\ StoppedAndFinished
  /\ ~relay.running
  /\ relay.video_calls = <<"terminate", "wait">>
  /\ relay.video_process = "alive"

\* C33: once stop() has returned, every socket the workers of the relay
\* have created is closed, however stop() interleaves with the start-up of
\* the workers.
C33_NoSocketOpenAfterStop ==
  (variant = "DroneRelay" /\ pc["main"] = "stopped") =>
    \A n \in SocketNames : relay.sockets[n] # "open"

\* C33: stop() has returned before the command worker created its sockets;
\* the worker has bound them, found the flag cleared and ended
C33_SocketsCreatedAfterStop ==
  /\ variant = "DroneRelay"
  /\ StoppedAndFinished
  /\ pc["command"] = "done"
  /\ relay.sockets.command_rx = "open"
  /\ relay.sockets.command_tx = "open"

\* the loop of channel ch is in its handler after a sendto that raised: the
\* datagram of this iteration had been received
SendFailed(ch) == pc[ch] = "except" /\ rx[ch].src # None

\* a step of the handler of channel ch after a failed send: the datagram is
\* not sent again and the errors counter goes up by one
FailedSendHandled(ch) ==
  /\ (SendFailed(ch) /\ pc'[ch] # "except") =>
       /\ \/ pc'[ch] = "errors_store"
          \/ relay'.statistics.errors = relay.statistics.errors + 1
       /\ tx'[ch].n = tx[ch].n
  /\ (pc[ch] = "errors_store" /\ pc'[ch] # "errors_store") =>
       /\ pc'[ch] = "loop"
       /\ tx'[ch].n = tx[ch].n
       /\ relay'.statistics.errors = relay.statistics.errors + 1

\* C35: the forwarded counter of the command (telemetry) loop equals the
\* number of datagrams the loop has sent onward, the store of the += 1 that
\* follows a send apart; a datagram whose send fails is not sent again, is
\* not counted as forwarded, and increments the errors counter by one.
C35_CountsSendsAndErrors ==
  /\ [](variant \in {"DroneRelay", "DroneRelayRTP"} =>
          \A ch \in {"command", "telemetry"} :
            pc[ch] # "count_store" =>
              StatisticsValue(relay.statistics, ChannelFields[ch].count) = tx[ch].n)
  /\ [][(variant \in {"DroneRelay", "DroneRelayRTP"}) =>
          (FailedSendHandled("command") /\ FailedSendHandled("telemetry"))]_vars

\* C35: the relay is running; the sendto of the command loop and the sendto
\* of the telemetry loop have each failed once, nothing was forwarded, both
\* loops are back at their recvfrom, and errors is 1
C35_TwoFailedSendsOneError ==
  /\ variant = "DroneRelay"
  /\ relay.running
  /\ faults = 2
  /\ pc["command"] = "loop" /\ pc["telemetry"] = "loop"
  /\ rx["command"].allowed = 1 /\ tx["command"].n = 0
  /\ rx["telemetry"].n = 1 /\ tx["telemetry"].n = 0
  /\ relay.statistics.commands_forwarded = 0
  /\ relay.statistics.errors = 1

\* the FFmpeg process object of the relay (self.video_process of DroneRelay,
\* self.ffmpeg_process of DroneRelayRTP)
VideoProcess ==
  CASE variant = "DroneRelay" -> relay.video_process
    [] variant = "DroneRelayRTP" -> relay.ffmpeg_process
    [] OTHER -> None

\* self.running of a relay that has a video worker
VideoRelayRunning == variant \in {"DroneRelay", "DroneRelayRTP"} /\ relay.running

\* C36: while the relay is running, whenever its FFmpeg process has exited,
\* the video worker eventually starts a replacement (or the relay is
\* stopped); this after every exit, not only the first.
C36_ExitedProcessReplaced ==
  (VideoProcess = "exited" /\ VideoRelayRunning)
    ~> (VideoProcess = "alive" \/ ~VideoRelayRunning)

\* C36: the DroneRelayRTP relay is running, its FFmpeg process has exited
\* and the video worker has returned: after the break that follows its one
\* restart, or after a Popen that raised
C36_SecondExitWorkerGone ==
  /\ variant = "DroneRelayRTP"
  /\ relay.running
  /\ relay.ffmpeg_process = "exited"
  /\ faults = 2
  /\ pc["video"] = "done"

(***************************************************************************)
(* Properties of the ground station (SpecComm)                             *)
(***************************************************************************)
\* in a sequence of calls made on a process, kill() comes only as the
\* fourth, after terminate(), wait() and the TimeoutExpired of the wait
EscalatesInOrder(calls) ==
  /\ Len(calls) > 0 => calls[1] = "terminate"
  /\ \A i \in DOMAIN calls :
       calls[i] = "kill" => /\ i = 4
                            /\ SubSeq(calls, 1, 3) = <<"terminate", "wait", "TimeoutExpired">>

SendCommandCalled ==
  /\ call'.n = call.n + 1
  /\ call'.op = "send_command"

\* the decimal arguments "10", "20", "100", written out
C4_Arguments == {<<49, 48>>, <<50, 48>>, <<49, 48, 48>>}

\* the well-known command tokens, those with an argument written as
\* token, space, argument
C4_WellKnown ==
  {Text.command, Text.takeoff, Text.land, Text.streamon, Text.streamoff}
    \cup {Text[d] \o <<32>> \o a :
            d \in {"forward", "backward", "left", "right", "cw", "ccw"},
            a \in C4_Arguments}

\* the call put exactly one datagram on the wire: the bytes of the command
\* (each of its characters is ASCII, so its UTF-8 encoding is the sequence of
\* its code points), addressed to (ip, command_port)
C4_OneDatagram ==
  /\ wire'.n = wire.n + 1
  /\ wire'.bytes = call'.arg
  /\ wire'.ip = comm.ip
  /\ wire'.port = comm.command_port

\* C4 as stated: send_command of a well-known token on a connected session
\* emits exactly one datagram, the UTF-8 bytes of the token and its
\* space-separated argument, to (ip, command_port).
C4_AlwaysOneDatagram ==
  [][(SendCommandCalled /\ comm.connected /\ call'.arg \in C4_WellKnown)
       => C4_OneDatagram]_vars

\* C4 amended: send_command of a well-known token on a connected session
\* emits exactly one datagram, the UTF-8 bytes of the token and its
\* space-separated argument, to (ip, command_port), and returns True, unless
\* sendto raises; then it emits nothing and returns False.
C4_OneDatagramUnlessSendtoRaises ==
  [][(SendCommandCalled /\ comm.connected /\ call'.arg \in C4_WellKnown)
       => \/ C4_OneDatagram /\ call'.result = "True" /\ cfaults' = cfaults
          \/ wire' = wire /\ call'.result = "False" /\ cfaults' = cfaults + 1]_vars

\* "forward 100" was sent on a connected session and is on the wire
C4_ForwardHundredSent ==
  /\ call.op = "send_command"
  /\ call.arg = <<102, 111, 114, 119, 97, 114, 100, 32, 49, 48, 48>>
  /\ call.result = "True"
  /\ comm.connected
  /\ wire.bytes = call.arg
  /\ wire.ip = network_config_DRONE_IP
  /\ wire.port = 8889

\* C5: send_command(c) returns False and emits no datagram whenever the
\* session is not connected and c is not "command": before the first
\* connect, after a failed connect and after disconnect.
C5_RejectedWhenNotConnected ==
  [][(SendCommandCalled /\ ~comm.connected /\ call'.arg # Text.command)
       => (call'.result = "False" /\ wire' = wire)]_vars

\* a command was rejected after a failed connect that left the command
\* socket open
C5_RejectedAfterFailedConnect ==
  /\ call.op = "send_command"
  /\ call.prev = "connect"
  /\ ~comm.connected
  /\ comm.command_socket # None
  /\ call.arg # Text.command
  /\ call.result = "False"
  /\ wire.n = 0

\* the second of two calls of disconnect in sequence has returned
SecondDisconnectReturned ==
  /\ call.op = "disconnect"
  /\ call.prev = "disconnect"
  /\ call.result # "pending"

\* the worker has left its loop, or was never started
WorkerStopped(t) == cpc[t] \in {"off", "done", "crashed"}

\* C6: after the second of two calls of disconnect in sequence, neither of
\* which raised, every socket is closed, the decoder process handle is
\* released and both worker loops (telemetry, video) have stopped.
C6_ShutdownIdempotent ==
  SecondDisconnectReturned
    => /\ call.result = "None"
       /\ comm.command_socket = None
       /\ comm.telemetry_socket = None
       /\ comm.ffmpeg_process = None
       /\ WorkerStopped("telemetry")
       /\ WorkerStopped("video")

\* what the second disconnect does achieve when no close() raised in it: the
\* sockets and the decoder handle are gone and both flags are cleared
C6_ResourcesReleased ==
  (SecondDisconnectReturned /\ call.result = "None")
    => /\ comm.command_socket = None
       /\ comm.telemetry_socket = None
       /\ comm.ffmpeg_process = None
       /\ ~comm.running
       /\ ~comm.connected

\* the second disconnect of a session that had been connected has returned
C6_DisconnectedTwice ==
  /\ SecondDisconnectReturned
  /\ signals.message = "Disconnected"
  /\ wire.bytes = Text.streamoff

\* C7: the bytes the video worker has read are its frames of frame_size
\* bytes each plus the bytes buffered, fewer than a frame; so 3*frame_size
\* bytes written in one piece give exactly 3 frames and an empty buffer, and
\* frame_size-1 bytes give no frame and frame_size-1 bytes buffered.
C7_FixedFrameDemux ==
  /\ video.consumed = video.frames_received * frame_size + video.buf
  /\ video.buf < frame_size
  /\ cpc["video"] = "emit" => video.raw_frame = frame_size
  /\ (decoder.fed = 3 * frame_size /\ video.consumed = 3 * frame_size)
       => (video.frames_received = 3 /\ video.buf = 0)
  /\ (decoder.fed = frame_size - 1 /\ video.consumed = frame_size - 1)
       => (video.frames_received = 0 /\ video.buf = frame_size - 1)

\* one write of 3*frame_size bytes has been read to the end
C7_ThreeFramesRead ==
  /\ decoder.feeds = 1
  /\ decoder.fed = 3 * frame_size
  /\ decoder.pipe = 0
  /\ video.consumed = 3 * frame_size
  /\ video.frames_received = 3
  /\ video.buf = 0

\* C8: a frame is published only by the step that holds a full frame of
\* frame_size bytes, and that frame is what it publishes; nothing else ever
\* publishes, whatever is buffered when the decoder exits or the session is
\* disconnected.
C8_OnlyFullFramesPublished ==
  /\ [](video.published \in {0, frame_size})
  /\ [](video.frames_emitted <= video.frames_received)
  /\ [][(video'.frames_emitted > video.frames_emitted
           \/ video'.published # video.published)
          => /\ cpc["video"] = "emit"
             /\ video.raw_frame = frame_size
             /\ video'.published = frame_size
             /\ video'.frames_emitted = video.frames_emitted + 1]_vars

\* the video worker has ended with part of a frame in its buffer after it
\* published full frames
C8_EndedWithPartialFrame ==
  /\ cpc["video"] \in {"done", "crashed"}
  /\ video.buf > 0
  /\ video.frames_emitted > 0
  /\ video.published = frame_size

\* a call of connect has returned False
ConnectFailed ==
  /\ call.op = "connect"
  /\ call.result = "False"

\* C10: when a step of connect fails (a bind, the decoder pipeline, the
\* command "command"), every socket opened in the attempt is closed before
\* the failure is reported: none remains open.
C10_NoSocketLeftOpen ==
  ConnectFailed => (comm.command_socket = None /\ comm.telemetry_socket = None)

\* connect failed at the decoder pipeline and has reported it
C10_PipelineFailed ==
  /\ ConnectFailed
  /\ signals.message = "Failed to setup video pipeline"

\* a call of disconnect has ended, by a return or by an exception
DisconnectEnded ==
  /\ call.op = "disconnect"
  /\ call.result # "pending"

\* C12: whichever single cleanup step of disconnect fails, the remaining
\* steps are still executed: the decoder handle is released, the sockets
\* other than a failing one are closed, and the status (false,
\* "Disconnected") is emitted.
C12_CleanupRunsToCompletion ==
  DisconnectEnded
    => /\ comm.ffmpeg_process = None
       /\ comm.command_socket = None \/ comm.telemetry_socket = None
       /\ signals.n = call.emitted + 1
       /\ ~signals.connected
       /\ signals.message = "Disconnected"

\* the streamoff send of a disconnect failed and the cleanup went on to the
\* end
C12_StreamoffFailedCleanupDone ==
  /\ DisconnectEnded
  /\ call.result = "None"
  /\ cfaults = 1
  /\ wire.bytes = Text.streamon
  /\ decoder.state \in {"terminated", "killed"}
  /\ signals.message = "Disconnected"

\* C13: the session becomes connected only in the step that has sent
\* "command" successfully, a worker loop is started only on a connected
\* session, and when the send of "command" fails no worker is running, both
\* flags are false and connect returns False.
C13_WorkersOnlyAfterModeEntry ==
  /\ [][(comm'.connected /\ ~comm.connected)
          => /\ wire'.n = wire.n + 1
             /\ wire'.bytes = Text.command
             /\ comm'.running
             /\ cpc'["caller"] = "connect_streamon"]_vars
  /\ [][(\E t \in {"telemetry", "video"} : ~WorkerStopped(t)' /\ WorkerStopped(t))
          => /\ comm.connected
             /\ comm.running
             /\ call'.op = "connect"
             /\ call'.result = "True"]_vars
  /\ []((call.op = "connect" /\ signals.n = call.emitted + 1
           /\ signals.message = "Failed to enter SDK mode")
          => /\ call.result = "False"
             /\ ~comm.connected
             /\ ~comm.running
             /\ WorkerStopped("telemetry")
             /\ WorkerStopped("video"))

\* connect has returned False because the send of "command" failed, with
\* both sockets open and the decoder running
C13_ModeEntryFailed ==
  /\ call.op = "connect"
  /\ call.result = "False"
  /\ signals.message = "Failed to enter SDK mode"
  /\ wire.n = 0
  /\ ~comm.connected
  /\ comm.command_socket # None
  /\ decoder.state = "alive"

\* the arrival numbers, in order, of the telemetry datagrams whose kind is
\* in the set
ArrivedOfKind(kinds) ==
  SelectSeq([i \in 1..Len(telemetry.arrived) |-> i],
            LAMBDA i : telemetry.arrived[i] \in kinds)

\* C14 as stated: telemetry_received has been emitted exactly once, in
\* arrival order, for every datagram that json.loads parsed.
C14_EveryParsedDelivered ==
  telemetry.delivered = ArrivedOfKind(JsonObjects \cup {"not_object"})

\* C14 amended: telemetry_received has been emitted exactly once, in arrival
\* order, for every datagram that parsed to a JSON object, and for no other.
C14_EveryObjectDelivered ==
  telemetry.delivered = ArrivedOfKind(JsonObjects)

\* two telemetry objects have been received and delivered
C14_TwoDelivered ==
  /\ telemetry.arrived = <<"object", "object">>
  /\ telemetry.delivered = <<1, 2>>

\* a call of connect has returned
ConnectReturned ==
  /\ call.op = "connect"
  /\ call.result \in {"True", "False"}

\* the call has emitted exactly one status signal
OneSignalEmitted == signals.n = call.emitted + 1

\* C15: each call of connect emits exactly one status signal, whose boolean
\* is what connect returns and the connected flag it leaves; each call of
\* disconnect emits exactly one signal, with boolean false.
C15_OneSignalPerTransition ==
  /\ ConnectReturned
       => /\ OneSignalEmitted
          /\ signals.connected = (call.result = "True")
          /\ comm.connected = signals.connected
  /\ DisconnectEnded
       => /\ OneSignalEmitted
          /\ ~signals.connected

\* the same for the calls of disconnect in which no close() raises
C15_OneSignalUnlessCloseRaises ==
  /\ ConnectReturned
       => /\ OneSignalEmitted
          /\ signals.connected = (call.result = "True")
          /\ comm.connected = signals.connected
  /\ (DisconnectEnded /\ call.result # "raised")
       => /\ OneSignalEmitted
          /\ ~signals.connected

\* a connect and a disconnect have each emitted their signal
C15_ConnectedThenDisconnected ==
  /\ DisconnectEnded
  /\ call.prev = "connect"
  /\ signals.n = 2
  /\ signals.message = "Disconnected"

\* C17: the only outcome of send_command is a boolean, in every state of the
\* session and for every command: it returns True and the datagram is sent,
\* or it returns False and nothing is sent; it returns no other value and
\* raises nothing.
C17_OnlyBooleanOutcome ==
  [][SendCommandCalled => \/ call'.result = "True" /\ wire'.n = wire.n + 1
                          \/ call'.result = "False" /\ wire' = wire]_vars

\* C17: send_command("command") on a session without a command socket has
\* returned None
C17_ReturnedNone ==
  /\ call.op = "send_command"
  /\ call.arg = Text.command
  /\ call.result = "None"
  /\ comm.command_socket = None

\* the video loop has found the FFmpeg process ended (line 174) and has left
\* the loop at line 177, in a session that is running with its process
\* handle in place
DecoderExitSeen ==
  /\ cpc["video"] = "done"
  /\ comm.running
  /\ comm.ffmpeg_process # None
  /\ decoder.state # "alive"

\* C19: the video loop tests the liveness of the FFmpeg process before each
\* read; once it has found the process ended it reads nothing further, and
\* the failure is reported to the owner of the session: the status signal
\* says not connected.
C19_DecoderExitReported ==
  /\ [](DecoderExitSeen => ~signals.connected)
  /\ [][(DecoderExitSeen /\ DecoderExitSeen') => video'.consumed = video.consumed]_vars
  /\ [][(cpc'["video"] = "read" /\ cpc["video"] # "read")
         => (cpc["video"] = "poll" /\ decoder.state = "alive")]_vars
  /\ [][video'.consumed > video.consumed => cpc["video"] \in {"read", "blocked"}]_vars

\* C19: the video loop has ended on the exit of the FFmpeg process and the
\* session still says connected, by its flag and by its last status signal
C19_ExitUnreported ==
  /\ DecoderExitSeen
  /\ comm.connected
  /\ signals.connected
  /\ cpc["caller"] = "idle"

\* C20: under any interleaving of disconnect() with the telemetry loop and
\* the video loop, neither thread ends with an uncaught exception.
C20_NoWorkerCrashes ==
  /\ cpc["telemetry"] # "crashed"
  /\ cpc["video"] # "crashed"

\* C20: disconnect() has set ffmpeg_process to None between the test of line
\* 170 and the poll of line 174, and the video thread has ended with the
\* AttributeError
C20_VideoThreadCrashed ==
  /\ cpc["video"] = "crashed"
  /\ comm.ffmpeg_process = None
  /\ ~comm.running

\* the decoder processes started by the session that are running: the one
\* of the handle and those that lost their handle
DecodersAlive == decoder.orphans + (IF decoder.state = "alive" THEN 1 ELSE 0)

\* C28: when connect() fails after the decoder process was started, the
\* attempt is rolled back and no decoder process is left running; and
\* across any sequence of connect and disconnect at most one decoder
\* process started by the session is alive.
C28_FailedConnectRollsBack ==
  /\ (call.op = "connect" /\ call.result = "False" /\ cpc["caller"] = "idle")
       => DecodersAlive = 0
  /\ DecodersAlive <= 1

\* C28: connect() has returned False because the drone did not take
\* "command", and the decoder it started is running
C28_DecoderLeftAfterSdkFailure ==
  /\ call.op = "connect"
  /\ call.result = "False"
  /\ cpc["caller"] = "idle"
  /\ signals.message = "Failed to enter SDK mode"
  /\ decoder.state = "alive"
  /\ comm.ffmpeg_process # None
  /\ ~comm.connected

\* C28: two decoder processes started by the session are running
C28_TwoDecodersAlive == DecodersAlive = 2

\* the step is a recvfrom of the telemetry loop that returned a datagram
TelemetryArrives == Len(telemetry'.arrived) = Len(telemetry.arrived) + 1

\* C29: a telemetry payload that is malformed (not UTF-8, not JSON, or JSON
\* that is no object) is dropped: nothing is delivered for it and the loop
\* goes on; a well-formed datagram is delivered whatever arrived before it,
\* and the loop is left only with the running flag cleared.
C29_MalformedDroppedLoopGoesOn ==
  /\ [][TelemetryArrives =>
          LET i == Len(telemetry'.arrived)
              kind == telemetry'.arrived[i]
          IN /\ kind \notin JsonObjects => /\ telemetry'.delivered = telemetry.delivered
                                        /\ cpc'["telemetry"] = "loop"
             /\ kind \in JsonObjects => telemetry'.delivered = Append(telemetry.delivered, i)]_vars
  /\ [][(cpc["telemetry"] = "loop" /\ cpc'["telemetry"] # "loop") => ~comm.running]_vars

\* C29: after a datagram that is no JSON object (the TypeError of the emit
\* went through the outer handler), the next one, an object, has been
\* delivered
C29_DeliveredAfterMalformed ==
  /\ telemetry.arrived = <<"not_object", "object">>
  /\ telemetry.delivered = <<2>>
  /\ cpc["telemetry"] = "loop"

\* C37: every object delivered through telemetry_received is a telemetry
\* snapshot of the vehicle; a heartbeat datagram of the relay, sent to the
\* same port, is never delivered.
C37_NoHeartbeatDelivered ==
  \A k \in DOMAIN telemetry.delivered :
    telemetry.arrived[telemetry.delivered[k]] # "heartbeat"

\* C37: a heartbeat of the relay has arrived on the telemetry socket, bound
\* to the port the relay sends it to, and has been emitted as telemetry
C37_HeartbeatDelivered ==
  /\ comm.telemetry_port = BASE_STATION_TELEMETRY_PORT
  /\ telemetry.arrived = <<"heartbeat">>
  /\ telemetry.delivered = <<1>>

\* C38: at any time at most one telemetry worker and at most one video
\* worker of the DroneComm is executing its loop: no video worker of an
\* earlier session runs beside the one of the present session.
C38_OneWorkerEach ==
  ~(/\ cpc["earlier"] \in {"while", "read"}
    /\ cpc["video"] \in {"while", "poll", "read", "blocked", "emit"})

\* C38: after disconnect and a second connect, the video worker of the
\* first session and the one of the second are both at the read of the
\* second session's process
C38_TwoVideoWorkersReading ==
  /\ comm.running
  /\ call.n = 3
  /\ decoder.orphans = 1
  /\ cpc["earlier"] = "read"
  /\ cpc["video"] = "read"

ReadCalled == cpc["video"] = "read" /\ cpc'["video"] \in {"while", "emit", "blocked"}

\* C30: every read from the decoder asks for exactly frame_size minus the
\* length of the buffer, a positive number of bytes; so the buffer never
\* holds more than a frame, and it is empty right after a frame has been
\* sliced off.
C30_ReadsWhatTheFrameLacks ==
  /\ [][ReadCalled => /\ video'.needed = frame_size - video.buf
                      /\ video'.needed > 0]_vars
  /\ [](video.buf < frame_size)
  /\ [](cpc["video"] = "emit" => (video.buf = 0 /\ video.raw_frame = frame_size))

\* C30: a read of a frame less one byte, then a read that asked for the one
\* byte lacking; the frame has been sliced off and the buffer is empty
C30_OneByteRequested ==
  /\ cpc["video"] = "emit"
  /\ video.needed = 1
  /\ video.raw_frame = frame_size
  /\ video.buf = 0
  /\ video.consumed = frame_size

\* the step puts one datagram on the wire of the command socket
CommandEmitted == wire'.n = wire.n + 1

\* C34: in every session the first datagram on the command channel is the
\* mode-entry command "command": the session becomes connected only in the
\* step that sends it, and any other command is emitted only by a connected
\* session, whatever the sequence of connect, disconnect and send_command.
C34_CommandFirst ==
  /\ [][(CommandEmitted /\ wire'.bytes # encode(Text.command)) => comm.connected]_vars
  /\ [][(comm'.connected /\ ~comm.connected) =>
          (CommandEmitted /\ wire'.bytes = encode(Text.command))]_vars

\* C34: connect() has sent "command" and "streamon", and a later
\* send_command has put another command on the wire
C34_OtherCommandAfterModeEntry ==
  /\ comm.connected
  /\ call.op = "send_command"
  /\ call.arg # Text.command
  /\ call.result = "True"
  /\ wire.n = 3
  /\ wire.bytes = encode(call.arg)

\* the thread of the ground station is not running: never started, returned,
\* or ended by an exception
CommThreadEnded(t) == cpc[t] \in {"off", "done", "crashed"}

\* C21: cancellation is cooperative: once disconnect() has cleared the
\* running flag, the telemetry loop and the video loop each observe it and
\* the thread ends, every receive and read being bounded.
C21_WorkersExitAfterFlagCleared ==
  \A t \in {"telemetry", "video"} :
    (~comm.running /\ ~CommThreadEnded(t)) ~> CommThreadEnded(t)

\* C21: the flag is cleared and the handle dropped, the FFmpeg process is
\* still running and has written nothing, and the video thread is inside
\* stdout.read
C21_VideoReadBlocked ==
  /\ ~comm.running
  /\ cpc["caller"] = "idle"
  /\ cpc["video"] = "blocked"
  /\ decoder.state = "alive"
  /\ decoder.pipe = 0
  /\ decoder.feeds < MaxFeeds

(***************************************************************************)
(* Properties of the legacy video datagram (SpecCodec)                     *)
(***************************************************************************)
\* the header bytes "42:12345"
C11_Header == <<52, 50, 58, 49, 50, 51, 52, 53>>

\* frameNumber = 42, timestamp = 12345, image = img
C11_Frame(img) ==
  [status |-> "frame", frameNumber |-> 42,
   timestamp |-> [whole |-> 12345, frac |-> <<>>], image |-> img]

\* C11 as stated: the datagram with length prefix L = 7, header bytes
\* "42:12345" and image bytes IMG decodes to frameNumber 42, timestamp 12345
\* and image IMG.
C11_DecodeLengthSeven ==
  \A img \in JpegImages :
    (~legacy.pending /\ legacy.datagram = <<0, 7>> \o C11_Header \o img)
      => legacy.out = C11_Frame(img)

\* C11 amended: the datagram with the length prefix of its 8 header bytes
\* "42:12345", L = 8 as two big-endian bytes, and image bytes IMG decodes to
\* frameNumber 42, timestamp 12345 and image IMG.
C11_DecodeLengthEight ==
  \A img \in JpegImages :
    (~legacy.pending /\ legacy.datagram = packet(C11_Header, img))
      => /\ SubSeq(legacy.datagram, 1, 2) = <<0, 8>>
         /\ legacy.out = C11_Frame(img)

\* the datagram with prefix 8, header "42:12345" and a JPEG was decoded
C11_ExampleDecoded ==
  /\ ~legacy.pending
  /\ legacy.datagram = <<0, 8>> \o C11_Header \o <<255, 216, 255, 217>>
  /\ legacy.out.status = "frame"
  /\ legacy.out.frameNumber = 42

====
